---- MODULE Spec2Model ----
(***************************************************************************)
(* Agentify: the MCP orchestration client (backend/src/mcp_client.py), the *)
(* lightweight chat server (app.py + session_manager.py) and the           *)
(* multi-tenant backend (backend/app.py + backend/src/auth.py).            *)
(*                                                                         *)
(* The specifications share the variables below:                           *)
(*   SpecQuery   one caller driving MCPClient.process_user_query           *)
(*   SpecLite    one chat request of the lightweight server                *)
(*   SpecConc    chat requests of the lightweight server, interleaved at   *)
(*               the await points of the handlers and of the query loop    *)
(*   SpecAuth    sign-in, token refresh and the authentication dependency  *)
(*               of the backend, with a clock                              *)
(*   SpecBackend resource requests of the backend by resolved users, one   *)
(*               at a time                                                 *)
(*   SpecTitle   the automatic title of a thread created by a message      *)
(*   SpecThreadJson  a stored thread written to and read from JSON         *)
(*   SpecPassword    hashing and verifying passwords                       *)
(*   SpecRegister    registration against existing users                   *)
(*   SpecIndex   the per-owner thread index of the cache-backed store      *)
(*   SpecLifecycle   one use of the SSE connection scope after the other   *)
(*   SpecConfig  saving and reading back encrypted configurations          *)
(*   SpecConn    tool-server connections of a running server               *)
(*   SpecRace    two provider-configuration transactions at once           *)
(*   SpecTranscript  the transcript the backend chat hands the client      *)
(*   SpecAddMessage  add_message of the thread store                       *)
(*   SpecStream  the streaming endpoint with a tool-server URL             *)
(*   SpecSurface the chat surfaces when the peer goes away                 *)
(*   SpecSignup  registrations as two transactions, two at once            *)
(*   SpecBoot    backend startup over stored session rows                  *)
(*   SpecBackup  backups and restores of the stored configurations         *)
(*   SpecProvider    construction of the client and its provider calls     *)
(*   SpecStore   the thread store with and without the cache               *)
(***************************************************************************)
EXTENDS Integers, Sequences, FiniteSets, TLC

\* ------------------------------------------------------------------ bounds
MaxCalls == 2           \* tool calls one provider reply can carry
LiteToolReplies == 1    \* replies with tool calls per server chat request
LongHistory == 15       \* turns stored in thread 1 before the requests
ShortHistory == 3       \* turns stored in the other threads

\* ------------------------------------------------------- program constants
max_iterations == 10    \* process_user_query(max_iterations: int = 10)
HistoryWindow == 10     \* messages[-10:] in the three chat surfaces

\* The two chat requests of the concurrency scenario; the specifications of
\* a single call or a single request use request 1.
Requests == {1, 2}
\* thread r exists at start; thread Cardinality(Requests) + r is the id the
\* store generates when request r creates a thread
ThreadIds == 1..(2 * Cardinality(Requests))
NoThread == 0

VARIABLES
    \* MCPClient (one instance per process)
    session,            \* attribute self.session: "unset" | "none" | "open"
    messages,           \* self.messages, the conversation buffer
    tool_session_map,   \* names of the tools mapped to a session
    \* one process_user_query call per request r
    pc,                 \* "idle" | "llm" | "tool" | "done"
    query,              \* user_query of the call (a content token)
    iteration_count,    \* local iteration_count
    pending,            \* tool calls of the current reply not yet answered
    llm_in,             \* transcript handed to the latest provider call
    llm_calls,          \* provider calls issued by the call so far
    result,             \* what the call returned (or "raised")
    plan,               \* tool calls the simulated provider asks for per reply
    cap,                \* provider replies that may carry tool calls
    appended,           \* messages the call appended, in order
    buf_owner,          \* request whose handler last assigned self.messages
    llm_owner,          \* buf_owner at the time of r's latest provider call
    tool_replies,       \* provider replies to r that carried tool calls
    llm_failed,         \* TRUE once a provider call of r has raised
    \* lightweight server (app.py) and its thread store
    mcp_session,        \* module global mcp_session: "none" | "open"
    system_prompt,      \* module global system_prompt (prompt code, 0 = "")
    available_tools,    \* TRUE iff the tool catalog is non-empty
    threads,            \* session_manager store: thread id -> thread or absent
    surface,            \* which surface serves request r
    thread_of,          \* thread the request works on
    outcome,            \* how the handler of request r ended, "none" before
    events,             \* frames the handler sent to the client, in order
    first_in,           \* transcript of the request's first provider call
    \* multi-tenant backend (backend/app.py, backend/src/auth.py)
    now,                \* the clock, in minutes
    ticks,              \* clock advances so far
    db_users,           \* table users: id -> [exists, is_active]
    db_sessions,        \* table user_sessions, rows in insertion order
    issued,             \* tokens the server has signed
    auth_req,           \* bearer token of the latest authenticated request
    auth_resp,          \* its response
    startup_connected,  \* whether lifespan reached the tool server
    next_id,            \* rows created so far (ids are 1..next_id)
    db_threads,         \* table chat_threads
    db_mcp,             \* table mcp_servers
    db_llm,             \* table llm_configurations
    req,                \* the latest CRUD request
    resp,               \* its response
    \* library functions applied to one input (titles, serialisation, hashing)
    call_op,            \* the function applied, "none" before the call
    call_arg,           \* its input
    call_ret,           \* its result
    \* the cache-backed thread store (session_manager.py)
    user_threads,       \* the list under user_threads:{owner}, head first
    chat_threads,       \* the threads stored under chat_thread:{id}
    created_count,      \* threads created so far
    \* one use of MCPClient.sse_client_lifecycle
    scope,              \* statement the scope is at, "idle" outside of it
    server_url,         \* argument server_url
    streams_context,    \* local streams_context: "None" | "set"
    session_context,    \* local session_context: "None" | "set"
    exit_kind,          \* what ended the try block
    cleanup,            \* teardowns attempted by the finally block, in order
    cleanup_errors,     \* local cleanup_errors
    raised,             \* exception in flight or propagated, "None" if none
    \* the configuration store (config_manager.py)
    hash_mcp_servers,   \* cache hash mcp_servers: server id -> stored JSON
    key_llm_config,     \* cache key llm_config: stored JSON or JNull
    \* tool-server connections of a running server
    variant,            \* "lite" (app.py) | "backend" (backend/app.py)
    phase,              \* "starting" | "serving"
    opened_sessions,    \* sessions opened so far: "open" | "closed"
    map_session,        \* session the tool-to-session map refers to, 0 if empty
    global_session,     \* module global mcp_session / mcp_client.session, 0 if none
    current_url,        \* module global mcp_url
    invoked,            \* latest tool invocation through the map
    \* request transactions of the backend that run concurrently
    txn,                \* per request: position and the rows its session loaded
    \* registration requests of the backend that run concurrently
    reg,                \* per request: position and the user row it created
    db_preferences,     \* table user_preferences: the user_id of each row
    \* startup of the backend and the expired-session sweep
    booted,             \* the lifespan has reached its yield
    sweeps,             \* calls of cleanup_expired_sessions so far
    \* backups of the configuration store
    config_backups,     \* cache keys config_backup_backup_<t>: t -> stored JSON
    unix_time,          \* int(time.time())
    cache_at_backup,    \* t -> what the store returned when backup t was made
    \* the model provider of an MCPClient (backend mcp_client.py)
    environ,            \* os.environ: which settings are present
    llm_client,         \* what __init__ left: provider, client object, google_api_key
    llm_call,           \* shape of the latest _call_llm
    \* the thread store in both modes, driven by the same calls
    redis_threads,      \* cache keys chat_thread:<id>: the ids stored
    redis_user_threads, \* cache lists user_threads:<owner>: owner -> summaries
    memory_store,       \* self._memory_store in insertion order
    store_count,        \* threads created so far
    created_for,        \* thread id -> the owner create_thread was called for
    listing             \* latest get_user_threads: owner and both results

clientVars == <<session, messages, tool_session_map>>
callVars == <<pc, query, iteration_count, pending, llm_in, llm_calls, result,
              plan, cap, appended, buf_owner, llm_owner, tool_replies, llm_failed>>
liteVars == <<mcp_session, system_prompt, available_tools, threads, surface,
              thread_of, outcome, events, first_in>>
liteNoFirst == <<mcp_session, system_prompt, available_tools, threads, surface,
                 thread_of, outcome, events>>
globals == <<mcp_session, system_prompt, available_tools>>
authVars == <<now, ticks, db_users, db_sessions, issued,
              auth_req, auth_resp>>
crudVars == <<startup_connected, next_id, db_threads, db_mcp, db_llm, req, resp>>
backendVars == <<authVars, crudVars>>
pureVars == <<call_op, call_arg, call_ret>>
indexVars == <<user_threads, chat_threads, created_count>>
lifeVars == <<scope, server_url, streams_context, session_context, exit_kind,
              cleanup, cleanup_errors, raised>>
configVars == <<hash_mcp_servers, key_llm_config>>
connVars == <<variant, phase, opened_sessions, map_session, global_session,
              current_url, invoked>>
raceVars == <<txn>>
regVars == <<reg, db_preferences>>
bootVars == <<booted, sweeps>>
backupVars == <<config_backups, unix_time, cache_at_backup>>
providerVars == <<environ, llm_client, llm_call>>
storeVars == <<redis_threads, redis_user_threads, memory_store, store_count,
               created_for, listing>>
auxVars == <<indexVars, lifeVars, configVars, connVars, raceVars, regVars,
             bootVars, backupVars, providerVars, storeVars>>
vars == <<clientVars, callVars, liteVars, backendVars, pureVars, auxVars>>

\* ------------------------------------------------------------ message data
\* The text of a message is a token [k, a, b]: k names what the text is, a
\* and b tell two texts of the same kind apart.
Text(k, a, b) == [k |-> k, a |-> a, b |-> b]

\* {"role": ..., "content": ...} with the optional tool_call_id / tool_calls
Msg(role, content, id, calls) ==
    [role |-> role, content |-> content, tool_call_id |-> id, tool_calls |-> calls]

Plain(role, content) == Msg(role, content, 0, <<>>)

\* str.strip() is empty for the empty and the whitespace-only text
Strip(q) == IF q.k \in {"empty", "blank"} THEN "" ELSE "nonblank"

\* ----------------------------------------------------------- tool calls
\* A requested call: its function name, whether its argument string is valid
\* JSON, and what the tool session does when invoked.
CallShapes ==
    { [name |-> "t1", json |-> TRUE,  beh |-> "text"],
      [name |-> "t1", json |-> TRUE,  beh |-> "empty"],
      [name |-> "t1", json |-> TRUE,  beh |-> "raise"],
      [name |-> "t1", json |-> FALSE, beh |-> "text"],
      [name |-> "tX", json |-> TRUE,  beh |-> "text"],
      [name |-> "tX", json |-> FALSE, beh |-> "text"] }

SeqsUpTo(S, n) == UNION { [1..k -> S] : k \in 1..n }

Plans == SeqsUpTo(CallShapes, MaxCalls)

CallId(round, j) == round * (MaxCalls + 2) + j

\* tool calls of the reply that opens round `round`
ReplyCalls(p, round) ==
    [j \in 1..Len(p) |-> [id |-> CallId(round, j), name |-> p[j].name,
                          json |-> p[j].json, beh |-> p[j].beh]]

ErrorTexts == { "Error: Invalid JSON in tool arguments",
                "Error: Tool not available in session map",
                "Error: Error calling tool" }

execute_tool_call_name_as_id(call, map) ==
    IF ~call.json THEN
        Msg("tool", Text("Error: Invalid JSON in tool arguments", 0, 0), call.id, <<>>)
    ELSE IF call.name \notin map THEN
        Msg("tool", Text("Error: Tool not available in session map", 0, 0), 0, <<>>)
    ELSE IF call.beh = "raise" THEN
        Msg("tool", Text("Error: Error calling tool", 0, 0), call.id, <<>>)
    ELSE IF call.beh = "empty" THEN
        Msg("tool", Text("No output from tool", 0, 0), call.id, <<>>)
    ELSE
        Msg("tool", Text("tool output", call.id, 0), call.id, <<>>)

\* _execute_tool_call: the tool-role message for one call
execute_tool_call(call, map) ==
    IF ~call.json THEN
        Msg("tool", Text("Error: Invalid JSON in tool arguments", 0, 0), call.id, <<>>)
    ELSE IF call.name \notin map THEN
        Msg("tool", Text("Error: Tool not available in session map", 0, 0), call.id, <<>>)
    ELSE IF call.beh = "raise" THEN
        Msg("tool", Text("Error: Error calling tool", 0, 0), call.id, <<>>)
    ELSE IF call.beh = "empty" THEN
        Msg("tool", Text("No output from tool", 0, 0), call.id, <<>>)
    ELSE
        Msg("tool", Text("tool output", call.id, 0), call.id, <<>>)

\* _execute_tool_call suspends only at `await ...call_tool(...)`: a call that
\* fails to parse or names an unmapped tool returns without yielding.
Suspends(call, map) == call.json /\ call.name \in map

\* index of the first call of cs that suspends, Len(cs) + 1 if none does
FirstAwait(cs, map) ==
    IF \E i \in 1..Len(cs) : Suspends(cs[i], map)
    THEN CHOOSE i \in 1..Len(cs) :
            /\ Suspends(cs[i], map)
            /\ \A j \in 1..(i - 1) : ~Suspends(cs[j], map)
    ELSE Len(cs) + 1

\* ----------------------------------------------- process_user_query steps
\* Run the `for tool_call in ...` loop from buffer buf with calls cs left,
\* up to the next await: either a tool invocation or the follow-up provider
\* call. `add` are the messages this step appended before the loop,
\* owner the request whose handler assigned the buffer now in place.
Continue(r, buf, add, cs, owner) ==
    LET n == FirstAwait(cs, tool_session_map)
        done == [i \in 1..(n - 1) |-> execute_tool_call(cs[i], tool_session_map)]
        nbuf == buf \o add \o done
    IN  /\ messages' = nbuf
        /\ appended' = [appended EXCEPT ![r] = @ \o add \o done]
        /\ IF n <= Len(cs)
           THEN /\ pc' = [pc EXCEPT ![r] = "tool"]
                /\ pending' = [pending EXCEPT ![r] = SubSeq(cs, n, Len(cs))]
                /\ UNCHANGED <<llm_in, llm_calls, llm_owner, first_in>>
           ELSE /\ pc' = [pc EXCEPT ![r] = "llm"]
                /\ pending' = [pending EXCEPT ![r] = <<>>]
                /\ llm_in' = [llm_in EXCEPT ![r] = nbuf]
                /\ llm_calls' = [llm_calls EXCEPT ![r] = @ + 1]
                /\ llm_owner' = [llm_owner EXCEPT ![r] = owner]
                /\ first_in' = [first_in EXCEPT ![r] =
                                    IF llm_calls[r] = 0 THEN nbuf ELSE @]

\* process_user_query from its entry to the first provider call, on buffer
\* buf (the caller may just have assigned it, as request `owner`).
Enter(r, buf, q, owner) ==
    IF session = "unset" THEN
        \* __init__ never creates the attribute: `self.session` raises
        \* AttributeError outside the try block
        /\ result' = [result EXCEPT ![r] = "raised"]
        /\ pc' = [pc EXCEPT ![r] = "done"]
        /\ messages' = buf
        /\ UNCHANGED <<pending, llm_in, llm_calls, appended, llm_owner, first_in>>
    ELSE IF session = "none" THEN
        /\ result' = [result EXCEPT ![r] = "Error: No MCP session available"]
        /\ pc' = [pc EXCEPT ![r] = "done"]
        /\ messages' = buf
        /\ UNCHANGED <<pending, llm_in, llm_calls, appended, llm_owner, first_in>>
    ELSE IF Strip(q) = "" THEN
        /\ result' = [result EXCEPT ![r] = "Error: Empty query provided"]
        /\ pc' = [pc EXCEPT ![r] = "done"]
        /\ messages' = buf
        /\ UNCHANGED <<pending, llm_in, llm_calls, appended, llm_owner, first_in>>
    ELSE
        /\ Continue(r, buf, <<Plain("user", q)>>, <<>>, owner)
        /\ UNCHANGED result

\* the reply text, with the note of line 259 when the ceiling was reached
ReplyText(r, count) ==
    Text("reply", r, IF count >= max_iterations THEN 1 ELSE 0)

ReplyResult(count) ==
    IF count >= max_iterations THEN "reply+note" ELSE "reply"

\* except Exception as e: return f"Error processing query: {str(e)}"
HandleQueryError_reraise == "raised"

HandleQueryError == "Error processing query"

\* The provider call of request r fails: _call_llm re-raises, the except
\* clause of process_user_query returns the error text.
LLMRaises(r) ==
    /\ pc[r] = "llm"
    /\ result' = [result EXCEPT ![r] = HandleQueryError]
    /\ pc' = [pc EXCEPT ![r] = "done"]
    /\ llm_failed' = [llm_failed EXCEPT ![r] = TRUE]
    /\ UNCHANGED <<clientVars, query, iteration_count, pending, llm_in, llm_calls,
                   plan, cap, appended, buf_owner, llm_owner, tool_replies>>

\* The provider answers without tool calls: the while loop is not entered
\* (again), the final assistant turn is appended and its text returned.
LLMFinal(r) ==
    /\ pc[r] = "llm"
    /\ messages' = Append(messages, Plain("assistant", ReplyText(r, iteration_count[r])))
    /\ appended' = [appended EXCEPT ![r] =
                        Append(@, Plain("assistant", ReplyText(r, iteration_count[r])))]
    /\ result' = [result EXCEPT ![r] = ReplyResult(iteration_count[r])]
    /\ pc' = [pc EXCEPT ![r] = "done"]
    /\ UNCHANGED <<session, tool_session_map, query, iteration_count, pending, llm_in,
                   llm_calls, plan, cap, buf_owner, llm_owner, tool_replies, llm_failed>>

LoopGuard_inclusive(count) == count <= max_iterations

\* while azure_response.tool_calls and iteration_count < max_iterations
LoopGuard(count) == count < max_iterations

\* The provider answers with tool calls.
LLMTools(r) ==
    /\ pc[r] = "llm"
    /\ llm_calls[r] <= cap[r]
    /\ tool_replies' = [tool_replies EXCEPT ![r] = @ + 1]
    /\ UNCHANGED llm_failed
    /\ IF LoopGuard(iteration_count[r])
       THEN LET round == iteration_count[r] + 1
                cs == ReplyCalls(plan[r], round)
                asst == Msg("assistant", Text("reply", r, 0), 0,
                            [j \in 1..Len(cs) |-> cs[j].id])
            IN  /\ iteration_count' = [iteration_count EXCEPT ![r] = round]
                /\ Continue(r, messages, <<asst>>, cs, buf_owner)
                /\ UNCHANGED <<session, tool_session_map, query, result, plan, cap,
                               buf_owner>>
       ELSE \* ceiling reached: note appended to the text, nothing appended
            \* to the buffer because the reply still carries tool calls
            /\ result' = [result EXCEPT ![r] = ReplyResult(iteration_count[r])]
            /\ pc' = [pc EXCEPT ![r] = "done"]
            /\ UNCHANGED <<clientVars, query, iteration_count, pending, llm_in,
                           llm_calls, plan, cap, appended, buf_owner, llm_owner,
                           first_in>>

\* The tool invocation in flight returns (or raises): its tool-role message
\* is appended and the for loop goes on.
ToolReturn(r) ==
    /\ pc[r] = "tool"
    /\ Continue(r, messages,
                <<execute_tool_call(pending[r][1], tool_session_map)>>,
                Tail(pending[r]), buf_owner)
    /\ UNCHANGED <<session, tool_session_map, query, iteration_count, result, plan,
                   cap, buf_owner, tool_replies, llm_failed>>

\* ------------------------------------------------------------- SpecQuery
\* One caller (request 1) calls process_user_query once on a client whose
\* session attribute and buffer were prepared by the front end.
QueryTexts == { Text("empty", 1, 0), Text("blank", 1, 0), Text("text", 1, 0) }

InitBuffers ==
    { <<>>,
      <<Plain("system", Text("prompt", 1, 0))>>,
      <<Plain("system", Text("prompt", 1, 0)), Plain("user", Text("turn", 0, 1)),
        Plain("assistant", Text("turn", 0, 2))>> }

LiteIdle ==
    /\ mcp_session = "none" /\ system_prompt = 0 /\ available_tools = FALSE
    /\ threads = [t \in ThreadIds |-> [exists |-> FALSE, messages |-> <<>>, prompt |-> 0]]
    /\ surface = [r \in Requests |-> "none"]
    /\ thread_of = [r \in Requests |-> NoThread]
    /\ outcome = [r \in Requests |-> "none"]
    /\ events = [r \in Requests |-> <<>>]

AuthIdle ==
    /\ now = 0 /\ ticks = 0
    /\ db_users = <<>> /\ db_sessions = <<>> /\ issued = {}
    /\ auth_req = [op |-> "none"]
    /\ auth_resp = [status |-> 0, detail |-> "none", ran |-> FALSE]

CrudIdle ==
    /\ startup_connected = FALSE
    /\ next_id = 0 /\ db_threads = {} /\ db_mcp = {} /\ db_llm = {}
    /\ req = [op |-> "none"]
    /\ resp = [status |-> 0, detail |-> "none", id |-> 0, body |-> 0]

PureIdle == call_op = "none" /\ call_arg = <<>> /\ call_ret = <<>>

IndexIdle == user_threads = <<>> /\ chat_threads = {} /\ created_count = 0

LifeIdle ==
    /\ scope = "idle" /\ server_url = "none"
    /\ streams_context = "None" /\ session_context = "None"
    /\ exit_kind = "none" /\ cleanup = <<>> /\ cleanup_errors = <<>>
    /\ raised = "None"

ConfigIdle == hash_mcp_servers = <<>> /\ key_llm_config = [json |-> "null"]

ConnIdle ==
    /\ variant = "none" /\ phase = "starting" /\ opened_sessions = <<>>
    /\ map_session = 0 /\ global_session = 0 /\ current_url = "none"
    /\ invoked = [via |-> "none", session |-> 0, state |-> "none"]

RaceIdle == txn = [r \in Requests |-> [pc |-> "idle"]]

RegIdle == reg = [r \in Requests |-> [pc |-> "idle"]] /\ db_preferences = <<>>

BootIdle == booted = FALSE /\ sweeps = 0

BackupIdle == config_backups = <<>> /\ unix_time = 0 /\ cache_at_backup = <<>>

ProviderIdle ==
    /\ environ = [k \in {} |-> FALSE]
    /\ llm_client = [made |-> "no"]
    /\ llm_call = [path |-> "none"]

StoreIdle ==
    /\ redis_threads = {} /\ redis_user_threads = <<>> /\ memory_store = <<>>
    /\ store_count = 0 /\ created_for = <<>>
    /\ listing = [user_id |-> "none"]

AuxIdle ==
    /\ IndexIdle /\ LifeIdle /\ ConfigIdle /\ ConnIdle /\ RaceIdle
    /\ RegIdle /\ BootIdle /\ BackupIdle /\ ProviderIdle /\ StoreIdle

BackendIdle == AuthIdle /\ CrudIdle /\ PureIdle /\ AuxIdle

CallsIdle ==
    /\ pc = [r \in Requests |-> "idle"]
    /\ iteration_count = [r \in Requests |-> 0]
    /\ pending = [r \in Requests |-> <<>>]
    /\ llm_in = [r \in Requests |-> <<>>]
    /\ first_in = [r \in Requests |-> <<>>]
    /\ llm_calls = [r \in Requests |-> 0]
    /\ result = [r \in Requests |-> "none"]
    /\ appended = [r \in Requests |-> <<>>]
    /\ buf_owner = 0
    /\ llm_owner = [r \in Requests |-> 0]
    /\ tool_replies = [r \in Requests |-> 0]
    /\ llm_failed = [r \in Requests |-> FALSE]

InitQuery ==
    /\ session \in {"unset", "none", "open"}
    /\ messages \in InitBuffers
    /\ tool_session_map = {"t1"}
    /\ \E q \in QueryTexts : query = [r \in Requests |-> q]
    /\ \E p \in Plans : plan = [r \in Requests |-> p]
    /\ cap = [r \in Requests |-> max_iterations + 1]
    /\ CallsIdle
    /\ LiteIdle
    /\ BackendIdle

\* response = await client.process_user_query(available_tools, user_query, tool_session_map)
process_user_query(r) ==
    /\ pc[r] = "idle"
    /\ Enter(r, messages, query[r], buf_owner)
    /\ UNCHANGED <<session, tool_session_map, query, iteration_count, plan, cap,
                   buf_owner, tool_replies, llm_failed>>

NextQuery ==
    \/ process_user_query(1) /\ UNCHANGED <<liteNoFirst, backendVars, pureVars, auxVars>>
    \/ LLMRaises(1) /\ UNCHANGED <<liteVars, backendVars, pureVars, auxVars>>
    \/ LLMFinal(1) /\ UNCHANGED <<liteVars, backendVars, pureVars, auxVars>>
    \/ LLMTools(1) /\ UNCHANGED <<liteNoFirst, backendVars, pureVars, auxVars>>
    \/ ToolReturn(1) /\ UNCHANGED <<liteNoFirst, backendVars, pureVars, auxVars>>

SpecQuery == InitQuery /\ [][NextQuery]_vars

\* -------------------------------------------------------------- SpecLite
\* session_manager: the thread store. A stored message is [role, content].
Stored(role, content) == [role |-> role, content |-> content]

\* get_messages: thread.messages if thread else []
get_messages(th, tid) ==
    IF tid \in ThreadIds /\ th[tid].exists THEN th[tid].messages ELSE <<>>

\* add_message: appends to an existing thread, does nothing on a missing one
add_message(th, tid, role, content) ==
    IF tid \in ThreadIds /\ th[tid].exists
    THEN [th EXCEPT ![tid].messages = Append(@, Stored(role, content))]
    ELSE th

\* create_thread: a thread with a generated id and no messages
create_thread(th, tid, prompt) ==
    [th EXCEPT ![tid] = [exists |-> TRUE, messages |-> <<>>, prompt |-> prompt]]

\* get_thread returns None: `if not thread`
get_thread_missing(th, tid) == ~(tid \in ThreadIds /\ th[tid].exists)

\* turn i stored in thread t before the requests: user and assistant alternate
PriorTurn(t, i) ==
    Stored(IF i % 2 = 1 THEN "user" ELSE "assistant", Text("turn", t, i))

LastN_none(ms, n) == <<>>

\* messages[-n:]
LastN(ms, n) ==
    IF Len(ms) > n THEN SubSeq(ms, Len(ms) - n + 1, Len(ms)) ELSE ms

IsChatRole(m) == m.role \in {"user", "assistant"}

\* thread.system_prompt if thread and thread.system_prompt else <default>
EffectivePrompt(th, tid, default) ==
    IF tid \in ThreadIds /\ th[tid].exists /\ th[tid].prompt # 0
    THEN th[tid].prompt ELSE default

\* conversation_messages: the system line when the effective prompt is not
\* empty, then the last 10 stored messages with role user or assistant.
\* tools = 1 when the JSON endpoint appended its tool_info sentence.
Context(th, tid, default, tools) ==
    LET p == EffectivePrompt(th, tid, default)
        sys == IF p # 0 \/ tools = 1
               THEN <<Plain("system", Text("prompt", p, tools))>> ELSE <<>>
        recent == SelectSeq(LastN(get_messages(th, tid), HistoryWindow), IsChatRole)
    IN  sys \o [i \in 1..Len(recent) |-> Plain(recent[i].role, recent[i].content)]

\* the text process_user_query returned, as stored in the assistant turn
ResultText(r, res) ==
    IF res = "reply" THEN Text("reply", r, 0)
    ELSE IF res = "reply+note" THEN Text("reply", r, 1)
    ELSE Text(res, r, 0)

Emit(r, e) == events' = [events EXCEPT ![r] = @ \o e]

\* the two frames that close a successful stream
StreamDoneFrames_without_done == <<"assistant_message">>
StreamDoneFrames == <<"assistant_message", "done">>

\* What the handler of request r does once process_user_query has returned
\* or raised; runs in the same step because nothing awaits in between.
Epilogue(r, th) ==
    LET res == result'[r]
        tid == thread_of'[r]
    IN  IF surface'[r] = "api" THEN
            IF res = "raised"
            THEN /\ threads' = add_message(th, tid, "assistant",
                                           Text("I encountered an error", r, 0))
                 /\ outcome' = [outcome EXCEPT ![r] = "500"]
                 /\ UNCHANGED events
            ELSE /\ threads' = add_message(th, tid, "assistant", ResultText(r, res))
                 /\ outcome' = [outcome EXCEPT ![r] = "200"]
                 /\ UNCHANGED events
        ELSE
            IF res = "raised"
            THEN /\ threads' = th
                 /\ outcome' = [outcome EXCEPT ![r] = "error"]
                 /\ Emit(r, <<"error">>)
            ELSE /\ threads' = add_message(th, tid, "assistant", ResultText(r, res))
                 /\ outcome' = [outcome EXCEPT ![r] = "done"]
                 /\ Emit(r, StreamDoneFrames)

\* a step of process_user_query made on behalf of a server request
Served(r, th) ==
    IF pc'[r] = "done" THEN Epilogue(r, th)
    ELSE threads' = th /\ UNCHANGED <<outcome, events>>

\* inputs of request r: its message and the thread it names
LiteTexts(r) == { Text("empty", r, 0), Text("blank", r, 0), Text("text", r, 0) }

ThreadChoices(r) == { NoThread, r }

\* str(uuid.uuid4()) in create_thread: an id no thread has yet
NewThread(r) == Cardinality(Requests) + r

Reject(r, how) ==
    /\ pc' = [pc EXCEPT ![r] = "done"]
    /\ outcome' = [outcome EXCEPT ![r] = how]
    /\ UNCHANGED <<clientVars, iteration_count, pending, llm_in, llm_calls, result,
                   plan, cap, appended, buf_owner, llm_owner, tool_replies,
                   llm_failed, globals, threads, events, first_in>>

\* POST /api/chat (chat_api). `message: str = Form(...)`: the framework
\* answers 422 to an empty form value before the handler runs.
ChatApi(r, texts, tids) ==
    /\ pc[r] = "idle"
    /\ \E msg \in texts, tid \in tids :
        /\ surface' = [surface EXCEPT ![r] = "api"]
        /\ query' = [query EXCEPT ![r] = msg]
        /\ thread_of' = [thread_of EXCEPT ![r] = tid]
        /\ IF msg.k = "empty" THEN Reject(r, "422")
           ELSE IF Strip(msg) = "" THEN Reject(r, "400")
           ELSE IF get_thread_missing(threads, tid)
                \* create_thread(..., thread_id=thread_id): the store's
                \* create_thread takes no thread_id, the call raises TypeError
                THEN Reject(r, "500")
           ELSE LET th == add_message(threads, tid, "user", msg)
                    ctx == Context(th, tid, system_prompt,
                                   IF available_tools THEN 1 ELSE 0)
                IN  /\ buf_owner' = r
                    /\ Enter(r, ctx, msg, r)
                    /\ Served(r, th)
                    /\ UNCHANGED <<session, tool_session_map, iteration_count, plan,
                                   cap, tool_replies, llm_failed, globals>>

\* POST /api/chat/stream, generate_response up to its first yield.
StreamUser(r, th, tid) ==
    IF mcp_session = "none"
    THEN /\ threads' = th
         /\ Emit(r, <<"error">>)
         /\ pc' = [pc EXCEPT ![r] = "done"]
         /\ outcome' = [outcome EXCEPT ![r] = "error"]
    ELSE /\ threads' = add_message(th, tid, "user", query'[r])
         /\ Emit(r, <<"user_message">>)
         /\ pc' = [pc EXCEPT ![r] = "s_user"]
         /\ UNCHANGED outcome

\* generate_response from "Create or get thread" to its next yield
StreamThread(r, tid) ==
    IF tid = NoThread
    THEN /\ thread_of' = [thread_of EXCEPT ![r] = NewThread(r)]
         /\ threads' = create_thread(threads, NewThread(r), system_prompt)
         /\ Emit(r, <<"thread_created">>)
         /\ pc' = [pc EXCEPT ![r] = "s_created"]
         /\ UNCHANGED outcome
    ELSE /\ thread_of' = [thread_of EXCEPT ![r] = tid]
         /\ StreamUser(r, threads, tid)

ChatStream(r, texts, tids) ==
    /\ pc[r] = "idle"
    /\ \E msg \in texts, tid \in tids :
        /\ surface' = [surface EXCEPT ![r] = "stream"]
        /\ query' = [query EXCEPT ![r] = msg]
        /\ IF msg.k = "empty"
           THEN /\ thread_of' = [thread_of EXCEPT ![r] = tid]
                /\ Reject(r, "422")
           ELSE /\ UNCHANGED <<clientVars, iteration_count, pending, llm_in, llm_calls,
                               result, plan, cap, appended, buf_owner, llm_owner,
                               tool_replies, llm_failed, globals, first_in>>
                /\ StreamThread(r, tid)

\* generate_response resumed after the thread_created frame
StreamAfterCreated(r) ==
    /\ pc[r] = "s_created"
    /\ UNCHANGED query
    /\ StreamUser(r, threads, thread_of[r])
    /\ UNCHANGED <<clientVars, iteration_count, pending, llm_in, llm_calls,
                   result, plan, cap, appended, buf_owner, llm_owner, tool_replies,
                   llm_failed, globals, surface, thread_of, first_in>>

\* yield f"data: {json.dumps({'type': 'thinking', ...})}"
StreamThinkingFrame_skipped == <<>>
StreamThinkingFrame == <<"thinking">>

\* ... resumed after the user_message frame: the context is assigned to the
\* shared client, then the thinking frame is yielded
StreamContext(r) ==
    /\ pc[r] = "s_user"
    /\ messages' = Context(threads, thread_of[r], system_prompt, 0)
    /\ buf_owner' = r
    /\ Emit(r, StreamThinkingFrame)
    /\ pc' = [pc EXCEPT ![r] = "s_thinking"]
    /\ UNCHANGED <<session, tool_session_map, query, iteration_count, pending, llm_in,
                   llm_calls, result, plan, cap, appended, llm_owner, tool_replies,
                   llm_failed, globals, threads, surface, thread_of, outcome, first_in>>

\* ... resumed after the thinking frame: process_user_query runs on whatever
\* the shared buffer holds by now
StreamQuery(r) ==
    /\ pc[r] = "s_thinking"
    /\ UNCHANGED <<surface, thread_of>>
    /\ Enter(r, messages, query[r], buf_owner)
    /\ Served(r, threads)
    /\ UNCHANGED <<session, tool_session_map, query, iteration_count, plan, cap,
                   buf_owner, tool_replies, llm_failed, globals>>

\* /ws/chat, a "chat" frame: websocket_chat and handle_websocket_chat up to
\* the first send
WsUser(r, th, tid) ==
    IF mcp_session = "none"
    THEN /\ threads' = th
         /\ Emit(r, <<"error">>)
         /\ pc' = [pc EXCEPT ![r] = "done"]
         /\ outcome' = [outcome EXCEPT ![r] = "error"]
    ELSE /\ threads' = add_message(th, tid, "user", query'[r])
         /\ Emit(r, <<"user_message">>)
         /\ pc' = [pc EXCEPT ![r] = "w_user"]
         /\ UNCHANGED outcome

WsChat(r, texts, tids) ==
    /\ pc[r] = "idle"
    /\ \E msg \in texts, tid \in tids :
        /\ surface' = [surface EXCEPT ![r] = "ws"]
        /\ query' = [query EXCEPT ![r] = msg]
        /\ IF Strip(msg) = ""
           THEN \* if not message.strip(): continue
                /\ thread_of' = [thread_of EXCEPT ![r] = tid]
                /\ Reject(r, "ignored")
           ELSE /\ UNCHANGED <<clientVars, iteration_count, pending, llm_in, llm_calls,
                               result, plan, cap, appended, buf_owner, llm_owner,
                               tool_replies, llm_failed, globals, first_in>>
                /\ IF tid = NoThread
                   THEN /\ thread_of' = [thread_of EXCEPT ![r] = NewThread(r)]
                        /\ threads' = create_thread(threads, NewThread(r), system_prompt)
                        /\ Emit(r, <<"thread_created">>)
                        /\ pc' = [pc EXCEPT ![r] = "w_created"]
                        /\ UNCHANGED outcome
                   ELSE /\ thread_of' = [thread_of EXCEPT ![r] = tid]
                        /\ WsUser(r, threads, tid)

WsAfterCreated(r) ==
    /\ pc[r] = "w_created"
    /\ UNCHANGED query
    /\ WsUser(r, threads, thread_of[r])
    /\ UNCHANGED <<clientVars, iteration_count, pending, llm_in, llm_calls,
                   result, plan, cap, appended, buf_owner, llm_owner, tool_replies,
                   llm_failed, globals, surface, thread_of, first_in>>

\* await websocket.send_text(thinking)
WsThinking(r) ==
    /\ pc[r] = "w_user"
    /\ Emit(r, <<"thinking">>)
    /\ pc' = [pc EXCEPT ![r] = "w_thinking"]
    /\ UNCHANGED <<clientVars, query, iteration_count, pending, llm_in, llm_calls,
                   result, plan, cap, appended, buf_owner, llm_owner, tool_replies,
                   llm_failed, globals, threads, surface, thread_of, outcome, first_in>>

\* context assembled, assigned to the client and the query loop entered
\* without an await in between
WsQuery(r) ==
    /\ pc[r] = "w_thinking"
    /\ UNCHANGED <<surface, thread_of>>
    /\ buf_owner' = r
    /\ Enter(r, Context(threads, thread_of[r], system_prompt, 0), query[r], r)
    /\ Served(r, threads)
    /\ UNCHANGED <<session, tool_session_map, query, iteration_count, plan, cap,
                   tool_replies, llm_failed, globals>>

\* the query loop of a server request goes on
LiteLoop(r) ==
    /\ surface[r] # "none"
    /\ UNCHANGED <<surface, thread_of, globals>>
    /\ \/ LLMRaises(r) /\ UNCHANGED first_in
       \/ LLMFinal(r) /\ UNCHANGED first_in
       \/ LLMTools(r)
       \/ ToolReturn(r)
    /\ Served(r, threads)

InitLite ==
    /\ \/ session = "open" /\ mcp_session = "open" /\ available_tools = TRUE
          /\ tool_session_map = {"t1"}
       \/ session = "unset" /\ mcp_session = "none" /\ available_tools = FALSE
          /\ tool_session_map = {}
    /\ system_prompt \in {0, 1}
    /\ messages = <<>>
    /\ threads = [t \in ThreadIds |->
                    IF t = 1 THEN [exists |-> TRUE, prompt |-> 2,
                                   messages |-> [i \in 1..LongHistory |-> PriorTurn(t, i)]]
                    ELSE IF t \in Requests
                    THEN [exists |-> TRUE, prompt |-> 0,
                          messages |-> [i \in 1..ShortHistory |-> PriorTurn(t, i)]]
                    ELSE [exists |-> FALSE, prompt |-> 0, messages |-> <<>>]]
    /\ surface = [r \in Requests |-> "none"]
    /\ thread_of = [r \in Requests |-> NoThread]
    /\ outcome = [r \in Requests |-> "none"]
    /\ events = [r \in Requests |-> <<>>]
    /\ query = [r \in Requests |-> Text("text", r, 0)]
    /\ plan = [r \in Requests |-> <<[name |-> "t1", json |-> TRUE, beh |-> "text"]>>]
    /\ cap = [r \in Requests |-> LiteToolReplies]
    /\ CallsIdle
    /\ BackendIdle

\* one request served with nothing else in flight
NextLite ==
    \/ ChatApi(1, LiteTexts(1), ThreadChoices(1)) /\ UNCHANGED <<backendVars, pureVars, auxVars>>
    \/ ChatStream(1, LiteTexts(1), ThreadChoices(1)) /\ UNCHANGED <<backendVars, pureVars, auxVars>>
    \/ StreamAfterCreated(1) /\ UNCHANGED <<backendVars, pureVars, auxVars>>
    \/ StreamContext(1) /\ UNCHANGED <<backendVars, pureVars, auxVars>>
    \/ StreamQuery(1) /\ UNCHANGED <<backendVars, pureVars, auxVars>>
    \/ WsChat(1, LiteTexts(1), ThreadChoices(1)) /\ UNCHANGED <<backendVars, pureVars, auxVars>>
    \/ WsAfterCreated(1) /\ UNCHANGED <<backendVars, pureVars, auxVars>>
    \/ WsThinking(1) /\ UNCHANGED <<backendVars, pureVars, auxVars>>
    \/ WsQuery(1) /\ UNCHANGED <<backendVars, pureVars, auxVars>>
    \/ LiteLoop(1) /\ UNCHANGED <<backendVars, pureVars, auxVars>>

SpecLite == InitLite /\ [][NextLite]_vars

\* ------------------------------------------------------------- SpecConc
\* Chat requests for different existing threads, served concurrently by the
\* one event loop: a handler runs until it awaits or yields, then any other
\* handler may run.
InitConc ==
    /\ InitLite
    /\ mcp_session = "open"

NextConc ==
    \E r \in Requests :
        \/ ChatApi(r, {Text("text", r, 0)}, {r}) /\ UNCHANGED <<backendVars, pureVars, auxVars>>
        \/ ChatStream(r, {Text("text", r, 0)}, {r}) /\ UNCHANGED <<backendVars, pureVars, auxVars>>
        \/ StreamContext(r) /\ UNCHANGED <<backendVars, pureVars, auxVars>>
        \/ StreamQuery(r) /\ UNCHANGED <<backendVars, pureVars, auxVars>>
        \/ WsChat(r, {Text("text", r, 0)}, {r}) /\ UNCHANGED <<backendVars, pureVars, auxVars>>
        \/ WsThinking(r) /\ UNCHANGED <<backendVars, pureVars, auxVars>>
        \/ WsQuery(r) /\ UNCHANGED <<backendVars, pureVars, auxVars>>
        \/ LiteLoop(r) /\ UNCHANGED <<backendVars, pureVars, auxVars>>

SpecConc == InitConc /\ [][NextConc]_vars

\* ------------------------------------------------- claims on SpecQuery
Finished(r) == pc[r] = "done"

Returned(r) == Finished(r) /\ result[r] # "raised"

\* C1: with the default ceiling the loop runs at most 10 tool-call rounds and
\* issues at most 11 provider calls whatever the provider does; when every
\* provider reply of a returned call requested tool calls, the loop ran
\* exactly 10 rounds and the returned text carries the maximum-iterations
\* notice.
C1_ToolLoopCeiling ==
    \A r \in Requests :
        /\ iteration_count[r] <= 10
        /\ llm_calls[r] <= 11
        /\ (Finished(r) /\ llm_calls[r] >= 1 /\ tool_replies[r] = llm_calls[r])
              => /\ iteration_count[r] = 10
                 /\ result[r] = "reply+note"

C1_Witness ==
    \E r \in Requests :
        /\ Finished(r) /\ tool_replies[r] = 11 /\ llm_calls[r] = 11
        /\ iteration_count[r] = 10 /\ result[r] = "reply+note"

\* C3: whenever a provider call of process_user_query fails, the initial one
\* or a follow-up after tool results, the call returns the text
\* "Error processing query: ..." and does not raise.
C3_ProviderFailureReturned ==
    \A r \in Requests :
        llm_failed[r] => Finished(r) /\ result[r] = "Error processing query"

C3_Witness ==
    \E r \in Requests :
        llm_failed[r] /\ llm_calls[r] >= 2 /\ result[r] = "Error processing query"

\* C4 (as claimed): a call made without an active session, also on a client on
\* which no session was ever set, or with an empty or whitespace-only query
\* returns one of the two error strings, raises nothing, calls no provider
\* and appends nothing to the buffer.
C4_RejectsWithoutRaising ==
    \A r \in Requests :
        (Finished(r) /\ (session # "open" \/ Strip(query[r]) = ""))
            => /\ result[r] \in {"Error: No MCP session available",
                                 "Error: Empty query provided"}
               /\ llm_calls[r] = 0
               /\ appended[r] = <<>>

\* the tool-call turns request r appended: positions of its assistant turns
\* that carry tool calls
ToolTurns(r) ==
    { i \in 1..Len(appended[r]) :
        appended[r][i].role = "assistant" /\ appended[r][i].tool_calls # <<>> }

\* a call of the plan fails: bad JSON, unmapped name or raising invocation
Fails(shape) ==
    ~shape.json \/ shape.name \notin tool_session_map \/ shape.beh = "raise"

\* C5: every requested tool call, also one with invalid JSON arguments, an
\* unmapped tool name or a raising invocation, yields exactly one tool-role
\* message with the call's id, placed after the assistant turn in request
\* order; the message of a failed call describes the failure; and once the
\* calls of a reply are answered the next provider call is issued instead of
\* the call aborting.
C5_OneToolMessagePerCall ==
    \A r \in Requests :
        /\ \A i \in ToolTurns(r) :
             LET ids == appended[r][i].tool_calls
                 open == IF pc[r] = "tool" /\ i = Len(appended[r]) - (Len(ids) - Len(pending[r]))
                         THEN Len(pending[r]) ELSE 0
             IN  /\ Len(ids) = Len(plan[r])
                 /\ Len(appended[r]) >= i + Len(ids) - open
                 /\ \A j \in 1..(Len(ids) - open) :
                      /\ appended[r][i + j].role = "tool"
                      /\ appended[r][i + j].tool_call_id = ids[j]
                      /\ (appended[r][i + j].content.k \in ErrorTexts) <=> Fails(plan[r][j])
                      /\ Cardinality({ m \in 1..Len(appended[r]) :
                                         /\ appended[r][m].role = "tool"
                                         /\ appended[r][m].tool_call_id = ids[j] }) = 1
        /\ Cardinality(ToolTurns(r)) = iteration_count[r]
        /\ (pc[r] \in {"llm", "done"} /\ iteration_count[r] >= 1)
              => llm_calls[r] = iteration_count[r] + 1
        /\ iteration_count[r] >= 1 => result[r] # "raised"

C5_Witness ==
    \E r \in Requests :
        /\ Finished(r) /\ result[r] = "reply" /\ iteration_count[r] >= 2
        /\ \E i, j \in 1..Len(appended[r]) :
             /\ appended[r][i].content.k = "Error: Invalid JSON in tool arguments"
             /\ appended[r][j].content.k = "Error: Error calling tool"
             /\ appended[r][i].tool_call_id # 0

\* ---------------------------------------- claims on SpecLite and SpecConc
\* the prior turns of thread t held by transcript ms
TurnsOf(ms, t) ==
    { i \in 1..Len(ms) : ms[i].content.k = "turn" /\ ms[i].content.a = t }

\* C2: the conversation buffer is one per process: the transcript a provider
\* call receives is the buffer as assembled by whichever request's handler
\* assigned it last, so it holds the stored turns of that request's thread,
\* also when the call is issued for another request.
C2_SharedBuffer ==
    \A r \in Requests :
        (llm_calls[r] >= 1 /\ llm_owner[r] # 0)
            => TurnsOf(llm_in[r], thread_of[llm_owner[r]]) # {}

\* a follow-up provider call of r, issued after the other request replaced the
\* buffer at an await point of r's query loop, holds the other thread's turns
\* and none of r's own thread
C2_Witness ==
    \E r \in Requests :
        /\ pc[r] = "llm" /\ llm_calls[r] >= 2
        /\ llm_owner[r] # r
        /\ thread_of[llm_owner[r]] # thread_of[r]
        /\ TurnsOf(llm_in[r], thread_of[llm_owner[r]]) # {}
        /\ TurnsOf(llm_in[r], thread_of[r]) = {}

\* C9 (as claimed): for a chat on a thread holding more than 10 turns, the
\* transcript of the request's first provider call is the system line, when
\* the effective prompt is not empty, followed by exactly the 10 most recent
\* stored turns in stored order.
C9_WindowIsWholeTranscript ==
    \A r \in Requests :
        (pc[r] = "llm" /\ llm_calls[r] = 1
            /\ Len(get_messages(threads, thread_of[r])) > 10)
        => LET ms == get_messages(threads, thread_of[r])
               body == IF first_in[r][1].role = "system"
                       THEN Tail(first_in[r]) ELSE first_in[r]
           IN  /\ Len(body) = 10
               /\ \A i \in 1..10 :
                    /\ body[i].role = ms[Len(ms) - 10 + i].role
                    /\ body[i].content = ms[Len(ms) - 10 + i].content

\* the store as it was before the requests, thread by thread
Untouched(t) ==
    IF t \in Requests
    THEN /\ threads[t].exists
         /\ Len(threads[t].messages) = (IF t = 1 THEN LongHistory ELSE ShortHistory)
    ELSE ~threads[t].exists

\* C10 (as claimed): an empty or whitespace-only message sent to POST
\* /api/chat or POST /api/chat/stream ends in a validation failure, creates no
\* thread and persists no message.
C10_BlankMessageRejected ==
    \A r \in Requests :
        (surface[r] \in {"api", "stream"} /\ Strip(query[r]) = "")
            => /\ \A t \in ThreadIds : Untouched(t)
               /\ outcome[r] \in {"none", "400", "422"}
               /\ llm_calls[r] = 0


(***************************************************************************)
(* Backend authentication: backend/src/auth.py and the endpoints of        *)
(* backend/app.py that sign tokens.  Time is counted in minutes.  A token  *)
(* is the record of what its string encodes; two tokens are the same       *)
(* string exactly when the records are equal.                              *)
(***************************************************************************)
MaxSessions == 3
MaxTicks == 2

ACCESS_TOKEN_EXPIRE_MINUTES == 1440
REFRESH_TOKEN_EXPIRE_MINUTES == 10080

Users == {1, 2}
UnknownUser == 3
SubNone == 0
SubNotUuid == -1

create_access_token(sub, t) ==
    [sub |-> sub, exp |-> t + ACCESS_TOKEN_EXPIRE_MINUTES, iat |-> t,
     type |-> "access", sig |-> "good"]

create_refresh_token(sub, t) ==
    [sub |-> sub, exp |-> t + REFRESH_TOKEN_EXPIRE_MINUTES, iat |-> t,
     type |-> "refresh", sig |-> "good"]

\* sha256 of the token string: equal strings, and only those, hash alike
hash_token(tok) == <<"sha256", tok>>

HttpError(code, detail) == [status |-> code, detail |-> detail, ran |-> FALSE]

AuthenticationError(detail) == HttpError(401, detail)

\* what "except jwt.JWTError" does when a non-expiry decode error arrives:
\* the jwt module has no attribute JWTError, so the clause itself raises
InvalidTokenClause == HttpError(500, "AttributeError")

\* jwt.decode checks the signature first, then the exp claim
verify_token(tok, t) ==
    IF tok.sig # "good" THEN InvalidTokenClause
    ELSE IF tok.exp <= t THEN AuthenticationError("Token has expired")
    ELSE [status |-> 200, detail |-> "payload", ran |-> FALSE]

MatchingSessions(tok, t) ==
    {i \in 1..Len(db_sessions) :
        /\ db_sessions[i].token_hash = hash_token(tok)
        /\ db_sessions[i].expires_at > t}

ActiveUser(sub) == sub \in DOMAIN db_users /\ db_users[sub].is_active

get_current_user(tok, t) ==
    LET payload == verify_token(tok, t) IN
    IF payload.status # 200 THEN payload
    ELSE IF tok.sub = SubNone
        THEN AuthenticationError("Could not validate credentials")
    ELSE IF tok.sub = SubNotUuid
        THEN AuthenticationError("Could not validate credentials")
    ELSE IF MatchingSessions(tok, t) = {}
        THEN AuthenticationError("Session not found or expired")
    ELSE IF Cardinality(MatchingSessions(tok, t)) > 1
        THEN HttpError(500, "MultipleResultsFound")
    ELSE IF ~ActiveUser(tok.sub) THEN AuthenticationError("User not found")
    ELSE [status |-> 200, detail |-> "user", ran |-> FALSE]

get_current_active_user(tok, t) ==
    LET found == get_current_user(tok, t) IN
    IF found.status = 200 /\ ~db_users[tok.sub].is_active
    THEN HttpError(400, "Inactive user")
    ELSE found

create_user_session(sub, tok, t) ==
    [user_id |-> sub, token_hash |-> hash_token(tok),
     expires_at |-> t + ACCESS_TOKEN_EXPIRE_MINUTES]

\* bearer credentials a client can present: tokens the server signed, the
\* same strings with a tampered signature, and tokens signed with the key
\* by someone else (the key has a published default)
Bearers ==
    issued
    \cup {[tok EXCEPT !.sig = "bad"] : tok \in issued}
    \cup {create_access_token(sub, now) :
            sub \in {SubNone, SubNotUuid, UnknownUser}}

Handled(found) ==
    IF found.status = 200 THEN [found EXCEPT !.ran = TRUE] ELSE found

\* POST /api/auth/login with the right password
login(u) ==
    /\ Len(db_sessions) < MaxSessions
    /\ auth_req' = [op |-> "login", user |-> u]
    /\ IF ActiveUser(u)
       THEN /\ issued' = issued \cup {create_access_token(u, now),
                                      create_refresh_token(u, now)}
            /\ db_sessions' = Append(db_sessions,
                 create_user_session(u, create_access_token(u, now), now))
            /\ auth_resp' = [status |-> 200, detail |-> "tokens", ran |-> TRUE]
       ELSE /\ auth_resp' = HttpError(401, "Incorrect username or password")
            /\ UNCHANGED <<issued, db_sessions>>
    /\ UNCHANGED <<now, ticks, db_users>>

\* POST /api/auth/refresh
refresh_token(tok) ==
    LET found == get_current_user(tok, now) IN
    /\ Len(db_sessions) < MaxSessions
    /\ auth_req' = [op |-> "refresh", token |-> tok]
    /\ auth_resp' = Handled(found)
    /\ IF found.status = 200
       THEN /\ issued' = issued \cup {create_access_token(tok.sub, now),
                                      create_refresh_token(tok.sub, now)}
            /\ db_sessions' = Append(db_sessions,
                 create_user_session(tok.sub,
                                     create_access_token(tok.sub, now), now))
       ELSE UNCHANGED <<issued, db_sessions>>
    /\ UNCHANGED <<now, ticks, db_users>>

\* GET /api/users/me
get_current_user_info(tok) ==
    /\ auth_req' = [op |-> "me", token |-> tok]
    /\ auth_resp' = Handled(get_current_active_user(tok, now))
    /\ UNCHANGED <<now, ticks, db_users, db_sessions, issued>>

\* the session rows a logout leaves behind: the handler never calls
\* logout_user, which would delete the row of the token
SessionsAfterLogout_row_deleted(tok) ==
    LET Other(row) == row.token_hash # hash_token(tok)
    IN  SelectSeq(db_sessions, Other)
SessionsAfterLogout(tok) == db_sessions

\* POST /api/auth/logout
logout(tok) ==
    LET found == get_current_user(tok, now) IN
    /\ auth_req' = [op |-> "logout", token |-> tok]
    /\ IF found.status = 200
       THEN /\ auth_resp' = [status |-> 200,
                             detail |-> "Logged out successfully",
                             ran |-> TRUE]
            /\ db_sessions' = SessionsAfterLogout(tok)
       ELSE /\ auth_resp' = found
            /\ UNCHANGED db_sessions
    /\ UNCHANGED <<now, ticks, db_users, issued>>

\* the clock moves: by a minute, or to a minute short of a token lifetime
Tick(d) ==
    /\ ticks < MaxTicks
    /\ ticks' = ticks + 1
    /\ now' = now + d
    /\ UNCHANGED <<db_users, db_sessions, issued, auth_req, auth_resp>>

\* user 2 signed in at minute 0 and may have been deactivated since
InitAuth ==
    /\ messages = <<>>
    /\ session = "open"
    /\ tool_session_map = {"t1"}
    /\ query = [r \in Requests |-> Text("text", 1, 0)]
    /\ plan = [r \in Requests |-> <<>>]
    /\ cap = [r \in Requests |-> 0]
    /\ CallsIdle
    /\ LiteIdle
    /\ CrudIdle
    /\ PureIdle
    /\ AuxIdle
    /\ now = 0 /\ ticks = 0
    /\ \E a \in BOOLEAN :
         db_users = [u \in Users |-> [is_active |-> (u = 1 \/ a)]]
    /\ db_sessions = <<create_user_session(2, create_access_token(2, 0), 0)>>
    /\ issued = {create_access_token(2, 0), create_refresh_token(2, 0)}
    /\ auth_req = [op |-> "none"]
    /\ auth_resp = [status |-> 0, detail |-> "none", ran |-> FALSE]

NextAuth ==
    \/ \E u \in Users : login(u) /\ UNCHANGED <<clientVars, callVars, liteVars, crudVars, pureVars, auxVars>>
    \/ \E tok \in Bearers : refresh_token(tok) /\ UNCHANGED <<clientVars, callVars, liteVars, crudVars, pureVars, auxVars>>
    \/ \E tok \in Bearers : get_current_user_info(tok) /\ UNCHANGED <<clientVars, callVars, liteVars, crudVars, pureVars, auxVars>>
    \/ \E tok \in Bearers : logout(tok) /\ UNCHANGED <<clientVars, callVars, liteVars, crudVars, pureVars, auxVars>>
    \/ \E d \in {1, ACCESS_TOKEN_EXPIRE_MINUTES - 1} : Tick(d) /\ UNCHANGED <<clientVars, callVars, liteVars, crudVars, pureVars, auxVars>>

SpecAuth == InitAuth /\ [][NextAuth]_vars

(***************************************************************************)
(* Backend resources: the thread, tool-server and provider-configuration   *)
(* endpoints of backend/app.py, called by a user the dependency            *)
(* get_current_active_user has already resolved.  Requests run one at a    *)
(* time, each in its own database transaction.                             *)
(***************************************************************************)
MaxRows == 2
MaxStored == 2

None == "None"
Flags == {"True", "False"}

\* ids a by-id request names: those of the table's rows, whoever owns them,
\* and one id that no row has
RowIds(table) == {row.id : row \in table} \cup {next_id + 1}

\* select(...).where(id == rid, user_id == u)
OwnedBy_any_owner(table, rid, u) == {row \in table : row.id = rid}
OwnedBy(table, rid, u) == {row \in table : row.id = rid /\ row.user_id = u}

NotFound(what) == [status |-> 404, detail |-> what, id |-> 0, body |-> 0]

Ok(rid) == [status |-> 200, detail |-> "ok", id |-> rid, body |-> 0]

Request(op, u, rid) ==
    [op |-> op, user |-> u, id |-> rid, is_default |-> None]

Fresh == next_id < MaxRows

\* POST /api/threads
create_chat_thread(u) ==
    /\ Fresh
    /\ req' = Request("create_chat_thread", u, NoThread)
    /\ next_id' = next_id + 1
    /\ db_threads' = db_threads \cup
                       {[id |-> next_id + 1, user_id |-> u, stored |-> 0]}
    /\ resp' = Ok(next_id + 1)
    /\ UNCHANGED <<db_mcp, db_llm, startup_connected>>

\* GET /api/threads/{thread_id}/messages
get_thread_messages(u, rid) ==
    /\ req' = Request("get_thread_messages", u, rid)
    /\ resp' = IF OwnedBy(db_threads, rid, u) = {}
               THEN NotFound("Thread not found")
               ELSE [Ok(rid) EXCEPT
                       !.body = (CHOOSE row \in OwnedBy(db_threads, rid, u) :
                                     TRUE).stored]
    /\ UNCHANGED <<next_id, db_threads, db_mcp, db_llm, startup_connected>>

ChatFailed ==
    [status |-> 500, detail |-> "Error processing chat", id |-> 0, body |-> 0]

\* the turns of a successful chat are committed together; when the query
\* raises (the client never got a session) the transaction is rolled back
ChatInto(row, u) ==
    IF startup_connected
    THEN /\ db_threads' = (db_threads \ {row}) \cup
                            {[row EXCEPT !.stored = @ + 2]}
         /\ resp' = Ok(row.id)
    ELSE /\ db_threads' = db_threads
         /\ resp' = ChatFailed

\* POST /api/chat
chat(u, rid) ==
    /\ req' = Request("chat", u, rid)
    /\ IF rid = NoThread
       THEN /\ Fresh
            /\ next_id' = next_id + 1
            /\ IF startup_connected
               THEN /\ db_threads' = db_threads \cup
                        {[id |-> next_id + 1, user_id |-> u, stored |-> 2]}
                    /\ resp' = Ok(next_id + 1)
               ELSE /\ db_threads' = db_threads \cup
                        {[id |-> next_id + 1, user_id |-> u, stored |-> 0]}
                    /\ resp' = ChatFailed
       ELSE /\ UNCHANGED next_id
            /\ IF OwnedBy(db_threads, rid, u) = {}
               THEN /\ resp' = NotFound("Thread not found")
                    /\ UNCHANGED db_threads
               ELSE LET row == CHOOSE x \in OwnedBy(db_threads, rid, u) : TRUE
                    IN  /\ row.stored + 2 <= MaxStored
                        /\ ChatInto(row, u)
    /\ UNCHANGED <<db_mcp, db_llm, startup_connected>>

\* DELETE /api/threads/{thread_id}
delete_thread(u, rid) ==
    /\ req' = Request("delete_thread", u, rid)
    /\ IF OwnedBy(db_threads, rid, u) = {}
       THEN /\ resp' = NotFound("Thread not found")
            /\ UNCHANGED db_threads
       ELSE /\ db_threads' = db_threads \ OwnedBy(db_threads, rid, u)
            /\ resp' = Ok(rid)
    /\ UNCHANGED <<next_id, db_mcp, db_llm, startup_connected>>

\* POST /api/mcp/servers
create_mcp_server(u, name) ==
    /\ Fresh
    /\ req' = Request("create_mcp_server", u, NoThread)
    /\ next_id' = next_id + 1
    /\ db_mcp' = db_mcp \cup {[id |-> next_id + 1, user_id |-> u, name |-> name]}
    /\ resp' = Ok(next_id + 1)
    /\ UNCHANGED <<db_threads, db_llm, startup_connected>>

\* PUT /api/mcp/servers/{server_id}
update_mcp_server(u, rid, name) ==
    /\ req' = Request("update_mcp_server", u, rid)
    /\ IF OwnedBy(db_mcp, rid, u) = {}
       THEN /\ resp' = NotFound("MCP server not found")
            /\ UNCHANGED db_mcp
       ELSE /\ db_mcp' = {IF row \in OwnedBy(db_mcp, rid, u) /\ name # None
                          THEN [row EXCEPT !.name = name] ELSE row :
                          row \in db_mcp}
            /\ resp' = Ok(rid)
    /\ UNCHANGED <<next_id, db_threads, db_llm, startup_connected>>

\* DELETE /api/mcp/servers/{server_id}
delete_mcp_server(u, rid) ==
    /\ req' = Request("delete_mcp_server", u, rid)
    /\ IF OwnedBy(db_mcp, rid, u) = {}
       THEN /\ resp' = NotFound("MCP server not found")
            /\ UNCHANGED db_mcp
       ELSE /\ db_mcp' = db_mcp \ OwnedBy(db_mcp, rid, u)
            /\ resp' = Ok(rid)
    /\ UNCHANGED <<next_id, db_threads, db_llm, startup_connected>>

\* "for config in existing_configs: config.is_default = False" over the
\* owner's configurations other than `keep`
UnsetDefaults_skipped(table, u, keep) == table
UnsetDefaults(table, u, keep) ==
    {IF row.user_id = u /\ row.id # keep
     THEN [row EXCEPT !.is_default = FALSE] ELSE row : row \in table}

\* POST /api/llm/configurations
create_llm_configuration(u, is_default) ==
    /\ Fresh
    /\ req' = [Request("create_llm_configuration", u, NoThread)
                 EXCEPT !.is_default = is_default]
    /\ next_id' = next_id + 1
    /\ db_llm' = (IF is_default = "True"
                  THEN UnsetDefaults(db_llm, u, NoThread) ELSE db_llm)
                 \cup {[id |-> next_id + 1, user_id |-> u,
                        is_default |-> (is_default = "True")]}
    /\ resp' = Ok(next_id + 1)
    /\ UNCHANGED <<db_threads, db_mcp, startup_connected>>

\* PUT /api/llm/configurations/{config_id}
update_llm_configuration(u, rid, is_default) ==
    /\ req' = [Request("update_llm_configuration", u, rid)
                 EXCEPT !.is_default = is_default]
    /\ IF OwnedBy(db_llm, rid, u) = {}
       THEN /\ resp' = NotFound("LLM configuration not found")
            /\ UNCHANGED db_llm
       ELSE LET cleared == IF is_default = "True"
                           THEN UnsetDefaults(db_llm, u, rid) ELSE db_llm
            IN  /\ db_llm' = {IF row \in OwnedBy(cleared, rid, u)
                                 /\ is_default # None
                              THEN [row EXCEPT
                                      !.is_default = (is_default = "True")]
                              ELSE row : row \in cleared}
                /\ resp' = Ok(rid)
    /\ UNCHANGED <<next_id, db_threads, db_mcp, startup_connected>>

\* DELETE /api/llm/configurations/{config_id}
delete_llm_configuration(u, rid) ==
    /\ req' = Request("delete_llm_configuration", u, rid)
    /\ IF OwnedBy(db_llm, rid, u) = {}
       THEN /\ resp' = NotFound("LLM configuration not found")
            /\ UNCHANGED db_llm
       ELSE /\ db_llm' = db_llm \ OwnedBy(db_llm, rid, u)
            /\ resp' = Ok(rid)
    /\ UNCHANGED <<next_id, db_threads, db_mcp, startup_connected>>

InitBackend ==
    /\ messages = <<>>
    /\ session = "open"
    /\ tool_session_map = {"t1"}
    /\ query = [r \in Requests |-> Text("text", 1, 0)]
    /\ plan = [r \in Requests |-> <<>>]
    /\ cap = [r \in Requests |-> 0]
    /\ CallsIdle
    /\ LiteIdle
    /\ AuthIdle
    /\ PureIdle
    /\ AuxIdle
    /\ startup_connected \in BOOLEAN
    /\ next_id = 0 /\ db_threads = {} /\ db_mcp = {} /\ db_llm = {}
    /\ req = [op |-> "none"]
    /\ resp = [status |-> 0, detail |-> "none", id |-> 0, body |-> 0]

NextBackend ==
    \/ \E u \in Users : create_chat_thread(u) /\ UNCHANGED <<clientVars, callVars, liteVars, authVars, pureVars, auxVars>>
    \/ \E u \in Users, rid \in RowIds(db_threads) : get_thread_messages(u, rid) /\ UNCHANGED <<clientVars, callVars, liteVars, authVars, pureVars, auxVars>>
    \/ \E u \in Users, rid \in RowIds(db_threads) \cup {NoThread} : chat(u, rid) /\ UNCHANGED <<clientVars, callVars, liteVars, authVars, pureVars, auxVars>>
    \/ \E u \in Users, rid \in RowIds(db_threads) : delete_thread(u, rid) /\ UNCHANGED <<clientVars, callVars, liteVars, authVars, pureVars, auxVars>>
    \/ \E u \in Users, name \in {"a"} : create_mcp_server(u, name) /\ UNCHANGED <<clientVars, callVars, liteVars, authVars, pureVars, auxVars>>
    \/ \E u \in Users, rid \in RowIds(db_mcp), name \in {"b", None} : update_mcp_server(u, rid, name) /\ UNCHANGED <<clientVars, callVars, liteVars, authVars, pureVars, auxVars>>
    \/ \E u \in Users, rid \in RowIds(db_mcp) : delete_mcp_server(u, rid) /\ UNCHANGED <<clientVars, callVars, liteVars, authVars, pureVars, auxVars>>
    \/ \E u \in Users, d \in Flags : create_llm_configuration(u, d) /\ UNCHANGED <<clientVars, callVars, liteVars, authVars, pureVars, auxVars>>
    \/ \E u \in Users, rid \in RowIds(db_llm), d \in Flags \cup {None} : update_llm_configuration(u, rid, d) /\ UNCHANGED <<clientVars, callVars, liteVars, authVars, pureVars, auxVars>>
    \/ \E u \in Users, rid \in RowIds(db_llm) : delete_llm_configuration(u, rid) /\ UNCHANGED <<clientVars, callVars, liteVars, authVars, pureVars, auxVars>>

SpecBackend == InitBackend /\ [][NextBackend]_vars

(***************************************************************************)
(* Claims about the backend                                                *)
(***************************************************************************)
\* the three conditions of an authenticated request, stated on the bearer
\* token, the session table and the user table at the time of the request
SignedAndUnexpired(tok) == tok.sig = "good" /\ tok.exp > now

LiveSessionRow(tok) ==
    \E i \in 1..Len(db_sessions) :
        /\ db_sessions[i].token_hash = hash_token(tok)
        /\ db_sessions[i].expires_at > now

SubjectActive(tok) == tok.sub \in DOMAIN db_users /\ db_users[tok.sub].is_active

AllThree(tok) ==
    SignedAndUnexpired(tok) /\ LiveSessionRow(tok) /\ SubjectActive(tok)

BearerRequest(q) == q.op \in {"me", "refresh"}

\* C6: a request behind the authentication dependency runs its handler only
\* if the token is correctly signed and unexpired, a session row with the
\* token's hash and a future expiry exists, and the token's subject is an
\* existing active user; when any of the three fails the answer is 401 and
\* no handler code runs.
C6_AuthenticatedOnlyIfAllThree ==
    [][BearerRequest(auth_req') =>
         /\ auth_resp'.ran => AllThree(auth_req'.token)
         /\ ~AllThree(auth_req'.token) =>
                auth_resp'.status = 401 /\ ~auth_resp'.ran]_vars

ResourceTable(op) ==
    IF op \in {"get_thread_messages", "chat", "delete_thread"} THEN db_threads
    ELSE IF op \in {"update_mcp_server", "delete_mcp_server"} THEN db_mcp
    ELSE db_llm

NotFoundAnswer(op) ==
    IF op \in {"get_thread_messages", "chat", "delete_thread"}
        THEN NotFound("Thread not found")
    ELSE IF op \in {"update_mcp_server", "delete_mcp_server"}
        THEN NotFound("MCP server not found")
    ELSE NotFound("LLM configuration not found")

ByIdRequest(q) ==
    /\ q.op \in {"get_thread_messages", "chat", "delete_thread",
                 "update_mcp_server", "delete_mcp_server",
                 "update_llm_configuration", "delete_llm_configuration"}
    /\ q.id # NoThread

ForeignRow(q) ==
    \E row \in ResourceTable(q.op) : row.id = q.id /\ row.user_id # q.user

MissingRow(q) == \A row \in ResourceTable(q.op) : row.id # q.id

\* C7: a by-id request for a thread, tool-server row or provider
\* configuration owned by someone else gets the same 404 as a request for an
\* id that does not exist, and changes no row.
C7_OwnerIsolation ==
    [][(ByIdRequest(req') /\ (ForeignRow(req') \/ MissingRow(req'))) =>
         /\ resp' = NotFoundAnswer(req'.op)
         /\ UNCHANGED <<db_threads, db_mcp, db_llm, next_id>>]_vars

C7_Witness ==
    /\ ByIdRequest(req)
    /\ req.op = "delete_thread"
    /\ ForeignRow(req)
    /\ resp.status = 404
    /\ \E row \in db_threads : row.id = req.id /\ row.stored > 0

DefaultsOf(u) == {row \in db_llm : row.user_id = u /\ row.is_default}

\* C8: each owner has at most one default provider configuration, and right
\* after a create or update that sets the default flag the configuration it
\* names is the owner's only default.
C8_AtMostOneDefault ==
    /\ \A u \in Users : Cardinality(DefaultsOf(u)) <= 1
    /\ (/\ req.op \in {"create_llm_configuration", "update_llm_configuration"}
        /\ req.is_default = "True"
        /\ resp.status = 200)
       => {row.id : row \in DefaultsOf(req.user)} = {resp.id}

C8_Witness ==
    /\ req.op = "create_llm_configuration"
    /\ req.is_default = "True"
    /\ \E row \in db_llm :
         /\ row.user_id = req.user
         /\ row.id < resp.id
         /\ ~row.is_default
    /\ DefaultsOf(req.user) # {}

(***************************************************************************)
(* Claims about the lightweight server, continued                          *)
(***************************************************************************)
SuccessFrames ==
    <<"thread_created", "user_message", "thinking", "assistant_message", "done">>

IsPrefix(a, b) == Len(a) <= Len(b) /\ \A i \in 1..Len(a) : a[i] = b[i]

\* request r is a streaming chat that named no thread, on a connected server
StreamOnNewThread(r) ==
    /\ surface[r] = "stream"
    /\ thread_of[r] = NewThread(r)
    /\ mcp_session = "open"

\* C11: a streaming chat without a thread id on a connected server, whose
\* query loop returns a reply, emits thread_created, user_message, thinking,
\* assistant_message, done in that order and nothing else: at every moment
\* the frames sent so far are a prefix of that sequence, and they are the
\* whole sequence once the stream has ended.
C11_StreamFrameOrder ==
    \A r \in Requests :
        (StreamOnNewThread(r) /\ result[r] # "raised") =>
            /\ IsPrefix(events[r], SuccessFrames)
            /\ (pc[r] = "done" => events[r] = SuccessFrames)

C11_Witness ==
    /\ StreamOnNewThread(1)
    /\ pc[1] = "done"
    /\ result[1] \in {"reply", "reply+note"}
    /\ events[1] = SuccessFrames
    /\ Len(threads[NewThread(1)].messages) = 2

(***************************************************************************)
(* Auto-titling: the expression the chat handlers use to name a new        *)
(* thread (app.py chat_api, generate_response, handle_websocket_chat and   *)
(* backend/app.py chat).  A message is the sequence of its maximal words   *)
(* and whitespace runs, so words and runs alternate.                       *)
(***************************************************************************)
MaxTokens == 9

TitleWords == 4

Words == {"a", "b"}

\* a whitespace run: one blank, or anything else str.split() skips
Spaces == {" ", "  "}

Ellipsis == "..."

SolarMessage ==
    <<"Tell", " ", "me", " ", "about", " ", "the", " ", "solar", " ",
      "system", " ", "now">>

\* the messages of n tokens: s tells whether a word comes first
AltSeqs(n) ==
    {[i \in 1..n |->
        IF (i + s) % 2 = 1
        THEN (IF f[i] = 1 THEN "a" ELSE "b")
        ELSE (IF f[i] = 1 THEN " " ELSE "  ")] :
        f \in [1..n -> {1, 2}], s \in {0, 1}}

Messages == UNION {AltSeqs(n) : n \in 0..MaxTokens} \cup {SolarMessage}

IsWord(t) == t \notin Spaces

\* message.split()
split(m) == SelectSeq(m, IsWord)

\* words[:n]
Take(ws, n) == SubSeq(ws, 1, IF Len(ws) < n THEN Len(ws) ELSE n)

\* " ".join(words)
join(ws) ==
    [i \in 1..(IF Len(ws) = 0 THEN 0 ELSE 2 * Len(ws) - 1) |->
        IF i % 2 = 1 THEN ws[(i + 1) \div 2] ELSE " "]

auto_title_five_words(message) ==
    LET title_words == Take(split(message), TitleWords + 1)
    IN  join(title_words) \o
        (IF Len(title_words) = TitleWords + 1 THEN <<Ellipsis>> ELSE <<>>)
auto_title_always_marked(message) ==
    join(Take(split(message), TitleWords)) \o <<Ellipsis>>
\* title_words = message.split()[:4]
\* title = " ".join(title_words) + ("..." if len(title_words) == 4 else "")
auto_title(message) ==
    LET title_words == Take(split(message), TitleWords)
    IN  join(title_words) \o
        (IF Len(title_words) = TitleWords THEN <<Ellipsis>> ELSE <<>>)

\* everything but the function under study at rest
ProgramIdle ==
    /\ messages = <<>>
    /\ session = "open"
    /\ tool_session_map = {"t1"}
    /\ query = [r \in Requests |-> Text("text", 1, 0)]
    /\ plan = [r \in Requests |-> <<>>]
    /\ cap = [r \in Requests |-> 0]
    /\ CallsIdle
    /\ LiteIdle
    /\ AuthIdle
    /\ CrudIdle
    /\ AuxIdle

programVars == <<clientVars, callVars, liteVars, backendVars, auxVars>>

InitTitle ==
    /\ ProgramIdle
    /\ call_op = "none"
    /\ call_arg \in Messages
    /\ call_ret = <<>>

\* a handler names the thread it creates for the message
CreateTitled ==
    /\ call_op = "none"
    /\ call_op' = "auto_title"
    /\ call_ret' = auto_title(call_arg)
    /\ UNCHANGED <<call_arg, programVars>>

NextTitle == CreateTitled

SpecTitle == InitTitle /\ [][NextTitle]_vars

Titled == call_op = "auto_title"

\* C12 (as claimed): the message "Tell me about the solar system now" is
\* titled "Tell me about the solar...".
C12_SolarTitleAsClaimed ==
    (Titled /\ call_arg = SolarMessage) =>
        call_ret = <<"Tell", " ", "me", " ", "about", " ", "the", " ",
                     "solar", Ellipsis>>

\* C12 (amended): the message "Tell me about the solar system now" is titled
\* "Tell me about the..."; the title of a message of four or more words is
\* its first four words, separated by single blanks, followed by the
\* ellipsis marker.
C12_FirstFourWords ==
    Titled =>
        /\ call_arg = SolarMessage =>
             call_ret = <<"Tell", " ", "me", " ", "about", " ", "the", Ellipsis>>
        /\ Len(split(call_arg)) >= 4 =>
             /\ Len(call_ret) = 8
             /\ call_ret[8] = Ellipsis
             /\ \A i \in 1..4 : call_ret[2 * i - 1] = split(call_arg)[i]
             /\ \A i \in 1..3 : call_ret[2 * i] = " "

C12_Witness ==
    /\ Titled
    /\ call_arg = SolarMessage
    /\ call_ret = <<"Tell", " ", "me", " ", "about", " ", "the", Ellipsis>>

SingleSpaced(m) ==
    /\ Len(m) > 0 => IsWord(m[1]) /\ IsWord(m[Len(m)])
    /\ \A i \in 1..Len(m) : ~IsWord(m[i]) => m[i] = " "

MaxAppended == 2

PyNone == [py |-> "None"]
PyStr(x) == [py |-> "str", s |-> x]

JNull == [json |-> "null"]
JString(x) == [json |-> "string", s |-> x]
JArray(items) == [json |-> "array", items |-> items]
JObject(members) == [json |-> "object", members |-> members]

\* json.dumps / json.loads on a scalar
dumps(v) == IF v = PyNone THEN JNull ELSE JString(v.s)
loads(j) == IF j = JNull THEN PyNone ELSE PyStr(j.s)

\* str(uuid.uuid4()) in ChatMessage.__post_init__
FreshMessageId == PyStr("uuid4")

ChatMessage(role, content, timestamp, message_id) ==
    [role |-> role, content |-> content, timestamp |-> timestamp,
     message_id |-> IF message_id = PyNone THEN FreshMessageId ELSE message_id]

\* ChatMessage.to_dict: asdict(self)
message_to_dict_without_id(msg) ==
    JObject([k \in {"role", "content", "timestamp"} |-> dumps(msg[k])])
message_to_dict(msg) ==
    JObject([k \in {"role", "content", "timestamp", "message_id"} |->
                dumps(msg[k])])

\* ChatMessage.from_dict: cls(**data), message_id defaults to None
message_from_dict(obj) ==
    ChatMessage(loads(obj.members.role), loads(obj.members.content),
                loads(obj.members.timestamp),
                IF "message_id" \in DOMAIN obj.members
                THEN loads(obj.members.message_id) ELSE PyNone)

\* ChatThread.to_json: json.dumps(self.to_dict())
to_json(thread) ==
    JObject([k \in {"thread_id", "title", "created_at", "updated_at",
                    "messages", "mcp_url", "system_prompt"} |->
                IF k = "messages"
                THEN JArray([i \in 1..Len(thread.messages) |->
                                message_to_dict(thread.messages[i])])
                ELSE dumps(thread[k])])

\* ChatThread.from_json: cls.from_dict(json.loads(json_str))
from_json(obj) ==
    [thread_id |-> loads(obj.members.thread_id),
     title |-> loads(obj.members.title),
     created_at |-> loads(obj.members.created_at),
     updated_at |-> loads(obj.members.updated_at),
     messages |-> [i \in 1..Len(obj.members.messages.items) |->
                      message_from_dict(obj.members.messages.items[i])],
     mcp_url |-> loads(obj.members.mcp_url),
     system_prompt |-> loads(obj.members.system_prompt)]

\* messages as add_message builds them: ChatMessage(role, content, timestamp)
AppendedMessages ==
    {ChatMessage(PyStr(role), PyStr(content), PyStr(ts), PyStr(id)) :
        role \in {"user", "assistant"}, content \in {"", "hi"},
        ts \in {"t1", "t2"}, id \in {"m1", "m2"}}

StoredThreads ==
    {[thread_id |-> PyStr("th"), title |-> PyStr("New Chat"),
      created_at |-> PyStr("t0"), updated_at |-> PyStr("t0"),
      messages |-> ms, mcp_url |-> url, system_prompt |-> prompt] :
        ms \in UNION {[1..n -> AppendedMessages] : n \in 0..MaxAppended},
        url \in {PyNone, PyStr("http://localhost:8000")},
        prompt \in {PyNone, PyStr("")}}

InitThreadJson ==
    /\ ProgramIdle
    /\ call_op = "none"
    /\ call_arg \in StoredThreads
    /\ call_ret = <<>>

\* _save_thread stores thread.to_json()
SaveThread ==
    /\ call_op = "none"
    /\ call_op' = "to_json"
    /\ call_ret' = to_json(call_arg)
    /\ UNCHANGED <<call_arg, programVars>>

\* get_thread returns ChatThread.from_json(thread_data)
LoadThread ==
    /\ call_op = "to_json"
    /\ call_op' = "from_json"
    /\ call_ret' = from_json(call_ret)
    /\ UNCHANGED <<call_arg, programVars>>

NextThreadJson ==
    \/ SaveThread
    \/ LoadThread

SpecThreadJson == InitThreadJson /\ [][NextThreadJson]_vars

\* C14: a thread serialised to JSON and loaded back equals the thread: each
\* message keeps its role, content, timestamp and message_id, and the
\* messages keep their order.
C14_JsonRoundTrip ==
    call_op = "from_json" =>
        /\ call_ret = call_arg
        /\ Len(call_ret.messages) = Len(call_arg.messages)
        /\ \A i \in 1..Len(call_arg.messages) :
              \A k \in {"role", "content", "timestamp", "message_id"} :
                  call_ret.messages[i][k] = call_arg.messages[i][k]

C14_Witness ==
    /\ call_op = "from_json"
    /\ Len(call_arg.messages) = 2
    /\ call_arg.messages[1] # call_arg.messages[2]
    /\ call_arg.mcp_url = PyNone
    /\ call_ret.messages = call_arg.messages

(***************************************************************************)
(* Password hashing: get_password_hash and verify_password of              *)
(* backend/src/auth.py.  A password is the sequence of its UTF-8 bytes.    *)
(* PBKDF2-HMAC-SHA256 is taken to be free of collisions on its HMAC key    *)
(* and salt; the HMAC key is the password padded with zero bytes to the    *)
(* block size of the hash, which is all hashlib does to a password no      *)
(* longer than a block.  A 32-byte draw of secrets.token_bytes is taken    *)
(* never to repeat.                                                        *)
(***************************************************************************)
MaxPasswordLen == 2

HmacBlockSize == 64

PasswordBytes == {0, 97, 98}

Passwords == UNION {[1..n -> PasswordBytes] : n \in 0..MaxPasswordLen}

Salts == {"s1", "s2"}

\* HMAC: a key shorter than the block is padded with zero bytes
hmac_key(password) ==
    [i \in 1..HmacBlockSize |-> IF i <= Len(password) THEN password[i] ELSE 0]

\* hashlib.pbkdf2_hmac('sha256', password.encode('utf-8'), salt, 100000)
pbkdf2_hmac(password, salt) ==
    [kdf |-> "pbkdf2-sha256", key |-> hmac_key(password), salt |-> salt]

\* base64.b64encode(...).decode('ascii') and its inverse
b64encode(bytes) == [b64 |-> bytes]
b64decode(text) == text.b64

\* get_password_hash with the salt secrets.token_bytes(32) returned
get_password_hash(password, salt) ==
    b64encode([salt |-> salt, pwdhash |-> pbkdf2_hmac(password, salt)])

\* verify_password: salt = bytes[:32], stored_hash = bytes[32:]
verify_password(plain_password, hashed_password) ==
    LET pwdhash_bytes == b64decode(hashed_password)
    IN  pbkdf2_hmac(plain_password, pwdhash_bytes.salt) = pwdhash_bytes.pwdhash

NoHash == b64encode(<<>>)

InitPassword ==
    /\ ProgramIdle
    /\ call_op = "none"
    /\ call_arg \in [p : Passwords, q : Passwords]
    /\ call_ret = [first |-> NoHash, second |-> NoHash,
                   accepts_p |-> FALSE, accepts_q |-> FALSE]

\* the password p is hashed for storage
HashFirst ==
    /\ call_op = "none"
    /\ call_op' = "hashed"
    /\ \E salt \in Salts :
         call_ret' = [call_ret EXCEPT !.first = get_password_hash(call_arg.p, salt)]
    /\ UNCHANGED <<call_arg, programVars>>

\* the same password is hashed once more
HashSecond ==
    /\ call_op = "hashed"
    /\ call_op' = "hashed twice"
    /\ \E salt \in Salts \ {b64decode(call_ret.first).salt} :
         call_ret' = [call_ret EXCEPT !.second = get_password_hash(call_arg.p, salt)]
    /\ UNCHANGED <<call_arg, programVars>>

\* p and q are checked against the first stored value
VerifyBoth ==
    /\ call_op = "hashed twice"
    /\ call_op' = "verified"
    /\ call_ret' = [call_ret EXCEPT
                      !.accepts_p = verify_password(call_arg.p, call_ret.first),
                      !.accepts_q = verify_password(call_arg.q, call_ret.first)]
    /\ UNCHANGED <<call_arg, programVars>>

NextPassword ==
    \/ HashFirst
    \/ HashSecond
    \/ VerifyBoth

SpecPassword == InitPassword /\ [][NextPassword]_vars

\* C15 (as claimed): a value stored for password p verifies true against p
\* and false against every q different from p, and two hashings of p give
\* different stored values.
C15_VerifiesOnlyOwnPassword ==
    call_op = "verified" =>
        /\ call_ret.accepts_p
        /\ call_arg.q # call_arg.p => ~call_ret.accepts_q
        /\ call_ret.first # call_ret.second

(***************************************************************************)
(* Claims about the backend, continued                                     *)
(***************************************************************************)
\* C16 (as claimed): verify_token fails with the expired-token failure on a
\* correctly signed token whose expiry has passed, fails with the
\* invalid-token failure on a token with a wrong signature, and returns the
\* payload of a correctly signed token whose expiry lies ahead.  Stated on
\* the requests that pass their bearer token to verify_token.
C16_VerifyTokenOutcomes ==
    [][BearerRequest(auth_req') =>
         LET tok == auth_req'.token IN
         /\ (tok.sig = "good" /\ tok.exp <= now) =>
                auth_resp' = AuthenticationError("Token has expired")
         /\ tok.sig # "good" =>
                auth_resp' = AuthenticationError("Invalid token")
         /\ (tok.sig = "good" /\ tok.exp > now) =>
                /\ verify_token(tok, now).status = 200
                /\ auth_resp'.detail \notin
                      {"Token has expired", "Invalid token", "AttributeError"}]_vars

(***************************************************************************)
(* Registration: POST /api/auth/register of backend/app.py.  The users     *)
(* table is the sequence of its rows in insertion order.                   *)
(***************************************************************************)
MaxUsers == 3

Usernames == {"ann", "bob", "cy"}
Emails == {"ann@x", "bob@x", "cy@x"}

\* select(User).where((User.username == username) | (User.email == email))
ExistingUsers(username, email) ==
    {i \in 1..Len(db_users) :
        db_users[i].username = username \/ db_users[i].email = email}

register(username, email) ==
    LET found == ExistingUsers(username, email) IN
    /\ auth_req' = [op |-> "register", username |-> username, email |-> email]
    /\ IF Cardinality(found) > 1
       THEN \* scalar_one_or_none() raises MultipleResultsFound, outside the try
            /\ auth_resp' = HttpError(500, "MultipleResultsFound")
            /\ UNCHANGED db_users
       ELSE IF found # {}
       THEN /\ auth_resp' =
                 IF db_users[CHOOSE i \in found : TRUE].username = username
                 THEN HttpError(400, "Username already registered")
                 ELSE HttpError(400, "Email already registered")
            /\ UNCHANGED db_users
       ELSE /\ Len(db_users) < MaxUsers
            /\ db_users' = Append(db_users, [username |-> username,
                                             email |-> email,
                                             is_active |-> TRUE])
            /\ auth_resp' = [status |-> 200, detail |-> "user", ran |-> TRUE]
    /\ UNCHANGED <<now, ticks, db_sessions, issued>>

InitRegister ==
    /\ ProgramIdle
    /\ PureIdle

NextRegister ==
    \E username \in Usernames, email \in Emails :
        register(username, email)
          /\ UNCHANGED <<clientVars, callVars, liteVars, crudVars, pureVars, auxVars>>

SpecRegister == InitRegister /\ [][NextRegister]_vars

UsernameTaken(q) == \E i \in 1..Len(db_users) : db_users[i].username = q.username

EmailTaken(q) == \E i \in 1..Len(db_users) : db_users[i].email = q.email

\* C17 (as claimed): a registration whose username or e-mail is held by an
\* existing user is answered 400 and adds no user row; the message is
\* 'Username already registered' when the username is taken and 'Email
\* already registered' when only the e-mail is taken, also when username and
\* e-mail are held by two different users.
C17_DuplicateRegistrationRejected ==
    [][(auth_req'.op = "register"
          /\ (UsernameTaken(auth_req') \/ EmailTaken(auth_req'))) =>
         /\ auth_resp'.status = 400
         /\ db_users' = db_users
         /\ UsernameTaken(auth_req') =>
                auth_resp'.detail = "Username already registered"
         /\ (~UsernameTaken(auth_req') /\ EmailTaken(auth_req')) =>
                auth_resp'.detail = "Email already registered"]_vars

(***************************************************************************)
(* The per-owner thread index of the cache-backed store                    *)
(* (session_manager.py with a reachable cache, one owner).  Thread ids and *)
(* creation times are the creation counter.                                *)
(***************************************************************************)
MaxCreated == 2

IndexCap == 100

NewTitles == {"a", "b"}

Summary(thread_id, title, created_at) ==
    [thread_id |-> thread_id, title |-> title, created_at |-> created_at]

Reverse(list) == [i \in 1..Len(list) |-> list[Len(list) + 1 - i]]

\* redis LPUSH key v1 v2 ...: each value in turn becomes the head
lpush(list, values) == Reverse(values) \o list

\* redis LTRIM key 0 stop
ltrim(list, stop) ==
    SubSeq(list, 1, IF Len(list) < stop + 1 THEN Len(list) ELSE stop + 1)

\* lrange(key, 0, -1), each entry parsed
get_user_threads == user_threads

get_thread(thread_id) == {t \in chat_threads : t.thread_id = thread_id}

\* the threads a call of this run may name: the oldest ones and those
\* created past the cap
Nameable ==
    {t.thread_id : t \in chat_threads} \cap
        ((1..MaxCreated) \cup (IndexCap..(IndexCap + MaxCreated)))

\* create_thread: _save_thread, then _add_thread_to_user (lpush, ltrim 0 99)
session_create_thread(title) ==
    /\ \/ created_count < MaxCreated
       \/ /\ created_count >= IndexCap - 1
          /\ created_count < IndexCap - 1 + MaxCreated
    /\ created_count' = created_count + 1
    /\ chat_threads' = chat_threads \cup
                         {Summary(created_count + 1, title, created_count + 1)}
    /\ user_threads' =
         ltrim(lpush(user_threads,
                     <<Summary(created_count + 1, title, created_count + 1)>>),
               IndexCap - 1)

update_thread_title(thread_id, title) ==
    /\ get_thread(thread_id) # {}
    /\ chat_threads' = {IF t.thread_id = thread_id
                        THEN [t EXCEPT !.title = title] ELSE t :
                        t \in chat_threads}
    /\ user_threads' =
         lpush(<<>>, [i \in 1..Len(user_threads) |->
                        IF user_threads[i].thread_id = thread_id
                        THEN [user_threads[i] EXCEPT !.title = title]
                        ELSE user_threads[i]])
    /\ UNCHANGED created_count

KeepOthers(list, thread_id) ==
    LET Other(info) == info.thread_id # thread_id IN SelectSeq(list, Other)

session_delete_thread(thread_id) ==
    /\ chat_threads' = chat_threads \ get_thread(thread_id)
    /\ user_threads' = lpush(<<>>, KeepOthers(user_threads, thread_id))
    /\ UNCHANGED created_count

\* the owner starts with no thread, or with one thread less than the cap
InitIndex ==
    /\ messages = <<>>
    /\ session = "open"
    /\ tool_session_map = {"t1"}
    /\ query = [r \in Requests |-> Text("text", 1, 0)]
    /\ plan = [r \in Requests |-> <<>>]
    /\ cap = [r \in Requests |-> 0]
    /\ CallsIdle
    /\ LiteIdle
    /\ AuthIdle
    /\ CrudIdle
    /\ PureIdle
    /\ RaceIdle
    /\ RegIdle
    /\ BootIdle
    /\ BackupIdle
    /\ ProviderIdle
    /\ StoreIdle
    /\ ConnIdle
    /\ LifeIdle
    /\ ConfigIdle
    /\ created_count \in {0, IndexCap - 1}
    /\ chat_threads = {Summary(i, "New Chat", i) : i \in 1..created_count}
    /\ user_threads = [j \in 1..created_count |->
                         Summary(created_count + 1 - j, "New Chat",
                                 created_count + 1 - j)]

NextIndex ==
    \/ session_create_thread("New Chat") /\ UNCHANGED <<clientVars, callVars, liteVars, backendVars, pureVars, lifeVars, configVars, connVars, raceVars, regVars, bootVars, backupVars, providerVars, storeVars>>
    \/ \E thread_id \in Nameable, title \in NewTitles : update_thread_title(thread_id, title) /\ UNCHANGED <<clientVars, callVars, liteVars, backendVars, pureVars, lifeVars, configVars, connVars, raceVars, regVars, bootVars, backupVars, providerVars, storeVars>>
    \/ \E thread_id \in Nameable : session_delete_thread(thread_id) /\ UNCHANGED <<clientVars, callVars, liteVars, backendVars, pureVars, lifeVars, configVars, connVars, raceVars, regVars, bootVars, backupVars, providerVars, storeVars>>

SpecIndex == InitIndex /\ [][NextIndex]_vars

\* C18 (as claimed): after any sequence of create, update-title and delete
\* calls of one owner, get_user_threads returns summaries of the owner's
\* remaining threads, newest-created first, at most 100 of them, each with
\* the title last set for its thread; while no more than 100 threads were
\* ever created every remaining thread is listed.
C18_IndexNewestFirst ==
    LET listed == get_user_threads IN
    /\ Len(listed) <= IndexCap
    /\ \A i \in 1..Len(listed) :
          \E t \in chat_threads :
              t.thread_id = listed[i].thread_id /\ t.title = listed[i].title
    /\ \A i, j \in 1..Len(listed) :
          i < j => listed[i].created_at > listed[j].created_at
    /\ created_count <= IndexCap =>
          \A t \in chat_threads :
              \E i \in 1..Len(listed) : listed[i].thread_id = t.thread_id

(***************************************************************************)
(* The scoped acquisition of an SSE tool-server session                    *)
(* (MCPClient.sse_client_lifecycle), one statement per step.               *)
(***************************************************************************)
ServerUrls == {"http://a/sse", "http://b/sse"}

\* what an awaited call may do: return, raise an Exception, or raise a
\* BaseException that is no Exception (the task was cancelled)
Awaited == {"ok", "Exception", "CancelledError"}

\* the except Exception clause around each teardown
Caught_never(how) == FALSE
Caught(how) == how = "Exception"

EnterScope(url) ==
    /\ scope = "idle"
    /\ scope' = "sse_client"
    /\ server_url' = url
    /\ streams_context' = "None"
    /\ session_context' = "None"
    /\ exit_kind' = "none"
    /\ cleanup' = <<>>
    /\ cleanup_errors' = <<>>
    /\ raised' = "None"

\* the try block ends: the exception, if any, is re-raised once finally ran
LeaveTry(kind, how) ==
    /\ scope' = "finally_session"
    /\ exit_kind' = kind
    /\ raised' = IF how = "ok" THEN "None" ELSE how

\* streams_context = sse_client(url); streams = await __aenter__()
OpenTransport(how) ==
    /\ scope = "sse_client"
    /\ streams_context' = "set"
    /\ IF how = "ok"
       THEN scope' = "ClientSession" /\ UNCHANGED <<exit_kind, raised>>
       ELSE LeaveTry("transport", how)
    /\ UNCHANGED <<server_url, session_context, cleanup, cleanup_errors>>

\* session_context = ClientSession(*streams); session = await __aenter__()
OpenSession(how) ==
    /\ scope = "ClientSession"
    /\ session_context' = "set"
    /\ IF how = "ok"
       THEN scope' = "initialize" /\ UNCHANGED <<exit_kind, raised>>
       ELSE LeaveTry("session", how)
    /\ UNCHANGED <<server_url, streams_context, cleanup, cleanup_errors>>

\* await session.initialize()
Initialize(how) ==
    /\ scope = "initialize"
    /\ IF how = "ok"
       THEN scope' = "yield" /\ UNCHANGED <<exit_kind, raised>>
       ELSE LeaveTry("initialize", how)
    /\ UNCHANGED <<server_url, streams_context, session_context, cleanup,
                   cleanup_errors>>

\* yield session: the body of the caller's async with runs and ends
ScopeBody(how) ==
    /\ scope = "yield"
    /\ LeaveTry(IF how = "ok" THEN "normal" ELSE "body", how)
    /\ UNCHANGED <<server_url, streams_context, session_context, cleanup,
                   cleanup_errors>>

\* one guarded teardown of the finally block
Teardown(context, layer, how, next) ==
    IF context = "None"
    THEN /\ scope' = next
         /\ UNCHANGED <<cleanup, cleanup_errors, raised>>
    ELSE /\ cleanup' = Append(cleanup, [layer |-> layer, how |-> how])
         /\ IF how = "ok"
            THEN scope' = next /\ UNCHANGED <<cleanup_errors, raised>>
            ELSE IF Caught(how)
            THEN /\ scope' = next
                 /\ cleanup_errors' = Append(cleanup_errors, layer)
                 /\ UNCHANGED raised
            ELSE /\ scope' = "exited"
                 /\ raised' = IF how = "Exception" THEN layer ELSE how
                 /\ UNCHANGED cleanup_errors

SessionTeardown(how) ==
    /\ scope = "finally_session"
    /\ Teardown(session_context, "Session cleanup error", how,
                "finally_streams")
    /\ UNCHANGED <<server_url, streams_context, session_context, exit_kind>>

StreamsTeardown(how) ==
    /\ scope = "finally_streams"
    /\ Teardown(streams_context, "Streams cleanup error", how, "exited")
    /\ UNCHANGED <<server_url, streams_context, session_context, exit_kind>>

\* the caller is past the scope and may enter it again
PastScope ==
    /\ scope = "exited"
    /\ scope' = "idle"
    /\ UNCHANGED <<server_url, streams_context, session_context, exit_kind,
                   cleanup, cleanup_errors, raised>>

InitLifecycle ==
    /\ messages = <<>>
    /\ session = "open"
    /\ tool_session_map = {"t1"}
    /\ query = [r \in Requests |-> Text("text", 1, 0)]
    /\ plan = [r \in Requests |-> <<>>]
    /\ cap = [r \in Requests |-> 0]
    /\ CallsIdle
    /\ LiteIdle
    /\ AuthIdle
    /\ CrudIdle
    /\ PureIdle
    /\ RaceIdle
    /\ RegIdle
    /\ BootIdle
    /\ BackupIdle
    /\ ProviderIdle
    /\ StoreIdle
    /\ ConnIdle
    /\ IndexIdle
    /\ ConfigIdle
    /\ LifeIdle

NextLifecycle ==
    \/ \E url \in ServerUrls : EnterScope(url) /\ UNCHANGED <<clientVars, callVars, liteVars, backendVars, pureVars, indexVars, configVars, connVars, raceVars, regVars, bootVars, backupVars, providerVars, storeVars>>
    \/ \E how \in Awaited : OpenTransport(how) /\ UNCHANGED <<clientVars, callVars, liteVars, backendVars, pureVars, indexVars, configVars, connVars, raceVars, regVars, bootVars, backupVars, providerVars, storeVars>>
    \/ \E how \in Awaited : OpenSession(how) /\ UNCHANGED <<clientVars, callVars, liteVars, backendVars, pureVars, indexVars, configVars, connVars, raceVars, regVars, bootVars, backupVars, providerVars, storeVars>>
    \/ \E how \in Awaited : Initialize(how) /\ UNCHANGED <<clientVars, callVars, liteVars, backendVars, pureVars, indexVars, configVars, connVars, raceVars, regVars, bootVars, backupVars, providerVars, storeVars>>
    \/ \E how \in Awaited : ScopeBody(how) /\ UNCHANGED <<clientVars, callVars, liteVars, backendVars, pureVars, indexVars, configVars, connVars, raceVars, regVars, bootVars, backupVars, providerVars, storeVars>>
    \/ \E how \in Awaited : SessionTeardown(how) /\ UNCHANGED <<clientVars, callVars, liteVars, backendVars, pureVars, indexVars, configVars, connVars, raceVars, regVars, bootVars, backupVars, providerVars, storeVars>>
    \/ \E how \in Awaited : StreamsTeardown(how) /\ UNCHANGED <<clientVars, callVars, liteVars, backendVars, pureVars, indexVars, configVars, connVars, raceVars, regVars, bootVars, backupVars, providerVars, storeVars>>
    \/ PastScope /\ UNCHANGED <<clientVars, callVars, liteVars, backendVars, pureVars, indexVars, configVars, connVars, raceVars, regVars, bootVars, backupVars, providerVars, storeVars>>

SpecLifecycle == InitLifecycle /\ [][NextLifecycle]_vars

\* the exits the claim lists: normal exit, an exception in the scope body,
\* a failure opening the session, a failure of the handshake
ListedExits == {"normal", "body", "session", "initialize"}

CleanupErrors == {"Session cleanup error", "Streams cleanup error"}

ServerIds == {"s1", "s2"}

HeaderNames == {"Authorization", "Accept"}

CredentialWords == {"key", "token", "secret", "password", "auth"}

PyBool(b) == [py |-> "bool", b |-> b]

\* self.encryption_key, created once and read back from the cache
encryption_key == "encryption_key"

\* Fernet(key).encrypt / decrypt: a token opens under the key that made it
_encrypt(data) == <<"gAAAAA", encryption_key>> \o data

_decrypt(encrypted_data) ==
    IF /\ Len(encrypted_data) >= 2
       /\ encrypted_data[1] = "gAAAAA"
       /\ encrypted_data[2] = encryption_key
    THEN SubSeq(encrypted_data, 3, Len(encrypted_data))
    ELSE <<"InvalidToken">>

\* k.lower().contains((...)): str has no attribute contains
contains(k, words) == "AttributeError"

\* the dict comprehension over config["headers"].items()
map_headers(headers) ==
    IF \E k \in DOMAIN headers :
           contains(k, CredentialWords) = "AttributeError"
    THEN "AttributeError"
    ELSE "dict"

mapped_headers(headers, seal) ==
    [k \in DOMAIN headers |->
        IF contains(k, CredentialWords) = "True"
        THEN (IF seal = "_encrypt" THEN _encrypt(headers[k])
              ELSE _decrypt(headers[k]))
        ELSE headers[k]]

\* json.dumps / json.loads of a configuration dict
config_dumps(config) ==
    JObject([k \in DOMAIN config |->
                IF k = "headers"
                THEN JObject([h \in DOMAIN config[k] |->
                                 JString(config[k][h])])
                ELSE JString(config[k])])

config_loads(obj) ==
    [k \in DOMAIN obj.members |->
        IF k = "headers"
        THEN [h \in DOMAIN obj.members[k].members |->
                 obj.members[k].members[h].s]
        ELSE obj.members[k].s]

hset(hash, field, value) ==
    [f \in DOMAIN hash \cup {field} |->
        IF f = field THEN value ELSE hash[f]]

\* tool-server configurations: no headers key, an empty headers map, or
\* headers with a credential name, another name, or both
McpConfigs ==
    {[url |-> <<"http://a/sse">>]} \cup
    {[url |-> <<"http://a/sse">>, headers |-> [h \in names |-> <<"v">>]] :
        names \in SUBSET HeaderNames}

LlmConfigs ==
    {[provider |-> <<"openai">>]} \cup
    {[provider |-> <<"openai">>, apiKey |-> k] : k \in {<<>>, <<"sk-1">>}}

Call(op, arg, ret) ==
    /\ call_op' = op
    /\ call_arg' = arg
    /\ call_ret' = <<ret>>

save_mcp_config(server_id, config) ==
    IF /\ "headers" \in DOMAIN config
       /\ map_headers(config.headers) = "AttributeError"
    THEN /\ Call("save_mcp_config", <<server_id, config>>, PyBool(FALSE))
         /\ UNCHANGED configVars
    ELSE /\ hash_mcp_servers' =
              hset(hash_mcp_servers, server_id,
                   config_dumps(
                     IF "headers" \in DOMAIN config
                     THEN [config EXCEPT !.headers =
                              mapped_headers(config.headers, "_encrypt")]
                     ELSE config))
         /\ Call("save_mcp_config", <<server_id, config>>, PyBool(TRUE))
         /\ UNCHANGED key_llm_config

get_mcp_config(server_id) ==
    /\ UNCHANGED configVars
    /\ IF server_id \notin DOMAIN hash_mcp_servers
       THEN Call("get_mcp_config", <<server_id>>, PyNone)
       ELSE LET config == config_loads(hash_mcp_servers[server_id]) IN
            IF "headers" \notin DOMAIN config
            THEN Call("get_mcp_config", <<server_id>>, config)
            ELSE IF map_headers(config.headers) = "AttributeError"
            THEN Call("get_mcp_config", <<server_id>>, PyNone)
            ELSE Call("get_mcp_config", <<server_id>>,
                      [config EXCEPT !.headers =
                          mapped_headers(config.headers, "_decrypt")])

save_llm_config(config) ==
    /\ key_llm_config' =
         config_dumps(IF "apiKey" \in DOMAIN config
                      THEN [config EXCEPT !.apiKey = _encrypt(config.apiKey)]
                      ELSE config)
    /\ Call("save_llm_config", <<config>>, PyBool(TRUE))
    /\ UNCHANGED hash_mcp_servers

get_llm_config ==
    /\ UNCHANGED configVars
    /\ IF key_llm_config = JNull
       THEN Call("get_llm_config", <<>>, PyNone)
       ELSE LET config == config_loads(key_llm_config) IN
            Call("get_llm_config", <<>>,
                 IF "apiKey" \in DOMAIN config
                 THEN [config EXCEPT !.apiKey = _decrypt(config.apiKey)]
                 ELSE config)

InitConfig ==
    /\ messages = <<>>
    /\ session = "open"
    /\ tool_session_map = {"t1"}
    /\ query = [r \in Requests |-> Text("text", 1, 0)]
    /\ plan = [r \in Requests |-> <<>>]
    /\ cap = [r \in Requests |-> 0]
    /\ CallsIdle
    /\ LiteIdle
    /\ AuthIdle
    /\ CrudIdle
    /\ PureIdle
    /\ RaceIdle
    /\ RegIdle
    /\ BootIdle
    /\ BackupIdle
    /\ ProviderIdle
    /\ StoreIdle
    /\ ConnIdle
    /\ IndexIdle
    /\ LifeIdle
    /\ ConfigIdle

NextConfig ==
    \/ \E server_id \in ServerIds, config \in McpConfigs : save_mcp_config(server_id, config) /\ UNCHANGED <<clientVars, callVars, liteVars, backendVars, indexVars, lifeVars, connVars, raceVars, regVars, bootVars, backupVars, providerVars, storeVars>>
    \/ \E server_id \in ServerIds : get_mcp_config(server_id) /\ UNCHANGED <<clientVars, callVars, liteVars, backendVars, indexVars, lifeVars, connVars, raceVars, regVars, bootVars, backupVars, providerVars, storeVars>>
    \/ \E config \in LlmConfigs : save_llm_config(config) /\ UNCHANGED <<clientVars, callVars, liteVars, backendVars, indexVars, lifeVars, connVars, raceVars, regVars, bootVars, backupVars, providerVars, storeVars>>
    \/ get_llm_config /\ UNCHANGED <<clientVars, callVars, liteVars, backendVars, indexVars, lifeVars, connVars, raceVars, regVars, bootVars, backupVars, providerVars, storeVars>>

SpecConfig == InitConfig /\ [][NextConfig]_vars

\* C20 (as claimed): every save_mcp_config(id, c) reports success and a
\* get_mcp_config(id) that follows it returns a configuration equal to c,
\* whatever the headers of c; every save_llm_config(m) reports success and
\* a get_llm_config() that follows it returns m with its API key in clear.
C20_ConfigRoundTrip ==
    [][/\ call_op' \in {"save_mcp_config", "save_llm_config"} =>
            call_ret' = <<PyBool(TRUE)>>
       /\ (/\ call_op = "save_mcp_config"
           /\ call_op' = "get_mcp_config"
           /\ call_arg'[1] = call_arg[1]) => call_ret' = <<call_arg[2]>>
       /\ (/\ call_op = "save_llm_config"
           /\ call_op' = "get_llm_config") => call_ret' = <<call_arg[1]>>]_vars

(***************************************************************************)
(* Claims about the backend, third group                                   *)
(***************************************************************************)
\* C21 (as claimed): a backend chat request that ends with the server error
\* of failed processing leaves the database as it was before the request:
\* no thread created by the request, no user turn and no assistant turn.
C21_FailedChatWritesNothing ==
    [][(req'.op = "chat" /\ resp' = ChatFailed) =>
           db_threads' = db_threads]_vars

MaxConnects == 3

NoInvocation == [via |-> "none", session |-> 0, state |-> "none"]

\* async with sse_client_lifecycle(url) as session: the globals are rebound
\* in the scope body; the session is closed when the scope has exited
Connected(state) ==
    /\ opened_sessions' = Append(opened_sessions, state)
    /\ map_session' = Len(opened_sessions) + 1
    /\ global_session' = Len(opened_sessions) + 1

\* lifespan of app.py: the server is served from inside the scope
lite_lifespan(reached) ==
    /\ variant = "lite" /\ phase = "starting"
    /\ phase' = "serving"
    /\ IF reached
       THEN Connected("open")
       ELSE /\ map_session' = 0 /\ global_session' = 0
            /\ UNCHANGED opened_sessions
    /\ UNCHANGED <<variant, current_url, invoked>>

\* lifespan of backend/app.py: the scope is left before the server serves
backend_lifespan(reached) ==
    /\ variant = "backend" /\ phase = "starting"
    /\ phase' = "serving"
    /\ IF reached
       THEN Connected("closed")
       ELSE /\ map_session' = 0
            /\ UNCHANGED <<opened_sessions, global_session>>
    /\ UNCHANGED <<variant, current_url, invoked>>

\* the query loop of a request; with a tool call of the provider's reply
\* _execute_tool_call looks the tool up in the map and calls its session
QueryLoop(via, tool_call, map, sessions) ==
    invoked' = IF tool_call /\ map # 0
               THEN [via |-> via, session |-> map, state |-> sessions[map]]
               ELSE invoked

\* if mcp_url_input and mcp_url_input != mcp_url:
Switches(url) == url # "None" /\ url # current_url

\* POST /ask
ask_api(url, reached, tool_call) ==
    /\ variant = "lite" /\ phase = "serving"
    /\ IF Switches(url)
       THEN /\ Len(opened_sessions) < MaxConnects
            /\ current_url' = url
            /\ IF reached
               THEN /\ Connected("closed")
                    /\ QueryLoop("ask", tool_call, map_session',
                                 opened_sessions')
               ELSE UNCHANGED <<opened_sessions, map_session, global_session,
                                invoked>>
       ELSE /\ IF global_session # 0
               THEN QueryLoop("ask", tool_call, map_session, opened_sessions)
               ELSE UNCHANGED invoked
            /\ UNCHANGED <<opened_sessions, map_session, global_session,
                           current_url>>
    /\ UNCHANGED <<variant, phase>>

\* POST /update_config
update_config(url, reached) ==
    /\ variant = "lite" /\ phase = "serving"
    /\ Switches(url)
    /\ Len(opened_sessions) < MaxConnects
    /\ current_url' = url
    /\ IF reached
       THEN Connected("closed")
       ELSE UNCHANGED <<opened_sessions, map_session, global_session>>
    /\ UNCHANGED <<variant, phase, invoked>>

\* POST /api/chat/stream
chat_stream(url, reached, tool_call) ==
    /\ variant = "lite" /\ phase = "serving"
    /\ IF Switches(url)
       THEN /\ Len(opened_sessions) < MaxConnects
            /\ current_url' = url
            /\ IF reached
               THEN /\ Connected("closed")
                    /\ QueryLoop("stream", tool_call, map_session',
                                 opened_sessions')
               ELSE UNCHANGED <<opened_sessions, map_session, global_session,
                                invoked>>
       ELSE /\ IF global_session # 0
               THEN QueryLoop("stream", tool_call, map_session,
                              opened_sessions)
               ELSE UNCHANGED invoked
            /\ UNCHANGED <<opened_sessions, map_session, global_session,
                           current_url>>
    /\ UNCHANGED <<variant, phase>>

\* POST /api/chat and the socket chat of app.py
chat_api(via, tool_call) ==
    /\ variant = "lite" /\ phase = "serving"
    /\ global_session # 0
    /\ QueryLoop(via, tool_call, map_session, opened_sessions)
    /\ UNCHANGED <<variant, phase, opened_sessions, map_session,
                   global_session, current_url>>

\* POST /api/chat of backend/app.py
backend_chat(tool_call) ==
    /\ variant = "backend" /\ phase = "serving"
    /\ global_session # 0
    /\ QueryLoop("backend", tool_call, map_session, opened_sessions)
    /\ UNCHANGED <<variant, phase, opened_sessions, map_session,
                   global_session, current_url>>

InitConn ==
    /\ messages = <<>>
    /\ session = "open"
    /\ tool_session_map = {"t1"}
    /\ query = [r \in Requests |-> Text("text", 1, 0)]
    /\ plan = [r \in Requests |-> <<>>]
    /\ cap = [r \in Requests |-> 0]
    /\ CallsIdle
    /\ LiteIdle
    /\ AuthIdle
    /\ CrudIdle
    /\ PureIdle
    /\ RaceIdle
    /\ RegIdle
    /\ BootIdle
    /\ BackupIdle
    /\ ProviderIdle
    /\ StoreIdle
    /\ IndexIdle
    /\ LifeIdle
    /\ ConfigIdle
    /\ variant \in {"lite", "backend"}
    /\ phase = "starting"
    /\ opened_sessions = <<>>
    /\ map_session = 0
    /\ global_session = 0
    /\ current_url \in ServerUrls
    /\ invoked = NoInvocation

NextConn ==
    \/ \E reached \in BOOLEAN : lite_lifespan(reached) /\ UNCHANGED <<clientVars, callVars, liteVars, backendVars, pureVars, indexVars, lifeVars, configVars, raceVars, regVars, bootVars, backupVars, providerVars, storeVars>>
    \/ \E reached \in BOOLEAN : backend_lifespan(reached) /\ UNCHANGED <<clientVars, callVars, liteVars, backendVars, pureVars, indexVars, lifeVars, configVars, raceVars, regVars, bootVars, backupVars, providerVars, storeVars>>
    \/ \E url \in ServerUrls, reached \in BOOLEAN : update_config(url, reached) /\ UNCHANGED <<clientVars, callVars, liteVars, backendVars, pureVars, indexVars, lifeVars, configVars, raceVars, regVars, bootVars, backupVars, providerVars, storeVars>>
    \/ \E url \in ServerUrls \cup {"None"}, reached, tool_call \in BOOLEAN : ask_api(url, reached, tool_call) /\ UNCHANGED <<clientVars, callVars, liteVars, backendVars, pureVars, indexVars, lifeVars, configVars, raceVars, regVars, bootVars, backupVars, providerVars, storeVars>>
    \/ \E url \in ServerUrls \cup {"None"}, reached, tool_call \in BOOLEAN : chat_stream(url, reached, tool_call) /\ UNCHANGED <<clientVars, callVars, liteVars, backendVars, pureVars, indexVars, lifeVars, configVars, raceVars, regVars, bootVars, backupVars, providerVars, storeVars>>
    \/ \E via \in {"chat", "socket"}, tool_call \in BOOLEAN : chat_api(via, tool_call) /\ UNCHANGED <<clientVars, callVars, liteVars, backendVars, pureVars, indexVars, lifeVars, configVars, raceVars, regVars, bootVars, backupVars, providerVars, storeVars>>
    \/ \E tool_call \in BOOLEAN : backend_chat(tool_call) /\ UNCHANGED <<clientVars, callVars, liteVars, backendVars, pureVars, indexVars, lifeVars, configVars, raceVars, regVars, bootVars, backupVars, providerVars, storeVars>>

SpecConn == InitConn /\ [][NextConn]_vars

\* C23 (as claimed): in every server variant, whenever the query loop of a
\* chat request invokes a tool through the tool-to-session map, the mapped
\* session is open, after the startup connection and after every
\* successful switch of the tool-server URL.
C23_MappedSessionOpen ==
    invoked.via # "none" => invoked.state = "open"

(***************************************************************************)
(* Two requests of one owner that set the default flag, each in its own    *)
(* database transaction (get_db hands every request its own session).  A   *)
(* transaction sees the rows committed when it reads; its changes reach    *)
(* the table when it commits.                                              *)
(***************************************************************************)
MaxRaceRows == 4

Owner == 1

\* tables a single owner can have built up one request at a time
CommittedTables ==
    {{}, {[id |-> 1, user_id |-> Owner, is_default |-> TRUE]},
     {[id |-> 1, user_id |-> Owner, is_default |-> TRUE],
      [id |-> 2, user_id |-> Owner, is_default |-> FALSE]}}

\* select(LLMConfiguration).where(user_id == owner [, id != config_id])
Siblings(u, rid) == {row \in db_llm : row.user_id = u /\ row.id # rid}

\* create_llm_configuration with is_default set, up to its commit
create_reads(r) ==
    /\ txn[r].pc = "idle"
    /\ next_id < MaxRaceRows
    /\ txn' = [txn EXCEPT ![r] = [pc |-> "read", op |-> "create",
                                  id |-> NoThread,
                                  loaded |-> Siblings(Owner, NoThread)]]
    /\ UNCHANGED <<db_llm, next_id>>

\* update_llm_configuration with is_default set, up to its commit
update_reads(r, rid) ==
    /\ txn[r].pc = "idle"
    /\ OwnedBy(db_llm, rid, Owner) # {}
    /\ txn' = [txn EXCEPT ![r] = [pc |-> "read", op |-> "update",
                                  id |-> rid,
                                  loaded |-> Siblings(Owner, rid)]]
    /\ UNCHANGED <<db_llm, next_id>>

\* the flush of a commit: one UPDATE per loaded row whose flag was changed
Flushed(table, loaded) ==
    {IF \E seen \in loaded : seen.id = row.id /\ seen.is_default
     THEN [row EXCEPT !.is_default = FALSE] ELSE row : row \in table}

\* await db.commit()
commit(r) ==
    /\ txn[r].pc = "read"
    /\ txn' = [txn EXCEPT ![r] = [pc |-> "idle"]]
    /\ IF txn[r].op = "create"
       THEN /\ next_id' = next_id + 1
            /\ db_llm' = Flushed(db_llm, txn[r].loaded) \cup
                           {[id |-> next_id + 1, user_id |-> Owner,
                             is_default |-> TRUE]}
       ELSE /\ UNCHANGED next_id
            /\ db_llm' = {IF row.id = txn[r].id
                          THEN [row EXCEPT !.is_default = TRUE] ELSE row :
                          row \in Flushed(db_llm, txn[r].loaded)}

InitRace ==
    /\ messages = <<>>
    /\ session = "open"
    /\ tool_session_map = {"t1"}
    /\ query = [r \in Requests |-> Text("text", 1, 0)]
    /\ plan = [r \in Requests |-> <<>>]
    /\ cap = [r \in Requests |-> 0]
    /\ CallsIdle
    /\ LiteIdle
    /\ AuthIdle
    /\ PureIdle
    /\ IndexIdle
    /\ LifeIdle
    /\ ConfigIdle
    /\ ConnIdle
    /\ RaceIdle
    /\ RegIdle
    /\ BootIdle
    /\ BackupIdle
    /\ ProviderIdle
    /\ StoreIdle
    /\ startup_connected = FALSE
    /\ db_threads = {} /\ db_mcp = {}
    /\ db_llm \in CommittedTables
    /\ next_id = Cardinality(db_llm)
    /\ req = [op |-> "none"]
    /\ resp = [status |-> 0, detail |-> "none", id |-> 0, body |-> 0]

NextRace ==
    \/ \E r \in Requests : create_reads(r) /\ UNCHANGED <<clientVars, callVars, liteVars, authVars, startup_connected, db_threads, db_mcp, req, resp, pureVars, indexVars, lifeVars, configVars, connVars, regVars, bootVars, backupVars, providerVars, storeVars>>
    \/ \E r \in Requests, rid \in 1..MaxRaceRows : update_reads(r, rid) /\ UNCHANGED <<clientVars, callVars, liteVars, authVars, startup_connected, db_threads, db_mcp, req, resp, pureVars, indexVars, lifeVars, configVars, connVars, regVars, bootVars, backupVars, providerVars, storeVars>>
    \/ \E r \in Requests : commit(r) /\ UNCHANGED <<clientVars, callVars, liteVars, authVars, startup_connected, db_threads, db_mcp, req, resp, pureVars, indexVars, lifeVars, configVars, connVars, regVars, bootVars, backupVars, providerVars, storeVars>>

SpecRace == InitRace /\ [][NextRace]_vars

\* C24 (as claimed): the owner has at most one default provider
\* configuration in every committed database state, also when two requests
\* that set the default flag run in concurrent transactions.
C24_AtMostOneDefaultConcurrently ==
    Cardinality({row \in db_llm : row.user_id = Owner /\ row.is_default}) <= 1

(***************************************************************************)
(* The transcript a backend chat hands to the orchestration client         *)
(* (backend/app.py, chat).  A stored message is its role and the position  *)
(* at which it was stored; the new user turn carries content 0.            *)
(***************************************************************************)
MaxBacklog == 24

ContextLimit == 20

NewContents == {0, -1, -2}

StoredTurn(i) ==
    [role |-> IF i % 2 = 1 THEN "user" ELSE "assistant", content |-> i]

UserTurn(content) == [role |-> "user", content |-> content]

\* the thread's rows in created_at order
StoredMessages(n) == [i \in 1..n |-> StoredTurn(i)]

\* select(ChatMessage).where(thread_id == ...).order_by(created_at).limit(20)
\* over the stored rows and the user turn the session has just added
history(rows) ==
    SubSeq(rows, 1, IF Len(rows) > ContextLimit THEN ContextLimit
                    ELSE Len(rows))

\* conversation_messages: the selected rows, then the new user turn
conversation_messages(stored, content) ==
    history(Append(stored, UserTurn(content))) \o <<UserTurn(content)>>

InitTranscript ==
    /\ ProgramIdle
    /\ call_op = "none"
    /\ \E n \in 0..MaxBacklog, content \in NewContents :
          call_arg = <<StoredMessages(n), content>>
    /\ call_ret = <<>>

\* mcp_client.messages = conversation_messages
SetContext ==
    /\ call_op = "none"
    /\ call_op' = "chat"
    /\ call_ret' = conversation_messages(call_arg[1], call_arg[2])
    /\ UNCHANGED <<call_arg, programVars>>

NextTranscript == SetContext

SpecTranscript == InitTranscript /\ [][NextTranscript]_vars

\* C25 (as claimed): for a chat on a thread with more than 20 stored
\* messages the transcript set on the client is the 20 most recently stored
\* messages in chronological order, followed by the new user turn.
C25_LastTwentyThenUserTurn ==
    (call_op = "chat" /\ Len(call_arg[1]) > ContextLimit) =>
        call_ret = SubSeq(call_arg[1], Len(call_arg[1]) - ContextLimit + 1,
                          Len(call_arg[1]))
                   \o <<UserTurn(call_arg[2])>>

(***************************************************************************)
(* add_message of the thread store (session_manager.py), with the id of    *)
(* the stored message.  uuid4 values are numbered in the order drawn.      *)
(***************************************************************************)
MaxThreadTurns == 2

\* the absent result (None); no message has this id
NoMessageId == 0

RECURSIVE StoredCount(_, _)
StoredCount(th, tids) ==
    IF tids = {} THEN 0
    ELSE LET t == CHOOSE x \in tids : TRUE
         IN  Len(th[t].messages) + StoredCount(th, tids \ {t})

\* str(uuid.uuid4()): a value no stored message has
uuid4(th) == StoredCount(th, ThreadIds) + 1

\* thread.messages.append(message)
with_message_first(thread_messages, message) == <<message>> \o thread_messages
with_message(thread_messages, message) == Append(thread_messages, message)

\* RedisSessionManager.add_message(thread_id, role, content)
AddMessage(tid, role, content) ==
    /\ call_op' = "add_message"
    /\ call_arg' = <<tid, role, content>>
    /\ IF get_thread_missing(threads, tid)
       THEN /\ call_ret' = <<NoMessageId>>
            /\ UNCHANGED threads
       ELSE /\ Len(threads[tid].messages) < MaxThreadTurns
            /\ threads' =
                 [threads EXCEPT ![tid].messages =
                     with_message(@, [role |-> role, content |-> content,
                                      message_id |-> uuid4(threads)])]
            /\ call_ret' = <<uuid4(threads)>>

\* threads 1 and 2 exist and are empty, the other ids are not in the store
InitAddMessage ==
    /\ messages = <<>>
    /\ session = "open"
    /\ tool_session_map = {"t1"}
    /\ query = [r \in Requests |-> Text("text", 1, 0)]
    /\ plan = [r \in Requests |-> <<>>]
    /\ cap = [r \in Requests |-> 0]
    /\ CallsIdle
    /\ AuthIdle
    /\ CrudIdle
    /\ AuxIdle
    /\ PureIdle
    /\ mcp_session = "none" /\ system_prompt = 0 /\ available_tools = FALSE
    /\ threads = [t \in ThreadIds |->
                    [exists |-> t \in Requests, messages |-> <<>>,
                     prompt |-> 0]]
    /\ surface = [r \in Requests |-> "none"]
    /\ thread_of = [r \in Requests |-> NoThread]
    /\ outcome = [r \in Requests |-> "none"]
    /\ events = [r \in Requests |-> <<>>]

NextAddMessage ==
    \E tid \in ThreadIds, role \in {"user", "assistant"}, content \in {1} :
        /\ AddMessage(tid, role, content)
        /\ UNCHANGED <<clientVars, callVars, backendVars, auxVars, mcp_session,
                       system_prompt, available_tools, surface, thread_of,
                       outcome, events, first_in>>

SpecAddMessage == InitAddMessage /\ [][NextAddMessage]_vars

StreamSwitch(r, texts, tids) ==
    /\ pc[r] = "idle"
    /\ \E msg \in texts, tid \in tids, reached, tools \in BOOLEAN :
        /\ msg.k # "empty"
        /\ surface' = [surface EXCEPT ![r] = "stream"]
        /\ query' = [query EXCEPT ![r] = msg]
        /\ thread_of' = [thread_of EXCEPT ![r] = tid]
        /\ IF reached
           THEN /\ session' = "open"
                /\ mcp_session' = "open"
                /\ available_tools' = tools
                /\ tool_session_map' = IF tools THEN {"t1"} ELSE {}
                /\ Emit(r, <<"system">>)
                /\ pc' = [pc EXCEPT ![r] = "s_system"]
                /\ UNCHANGED outcome
           ELSE /\ Emit(r, <<"error">>)
                /\ pc' = [pc EXCEPT ![r] = "done"]
                /\ outcome' = [outcome EXCEPT ![r] = "error"]
                /\ UNCHANGED <<session, mcp_session, available_tools,
                               tool_session_map>>
        /\ UNCHANGED <<messages, iteration_count, pending, llm_in, llm_calls,
                       result, plan, cap, appended, buf_owner, llm_owner,
                       tool_replies, llm_failed, system_prompt, threads,
                       first_in>>

\* generate_response resumed after the system frame
StreamAfterSystem(r) ==
    /\ pc[r] = "s_system"
    /\ UNCHANGED query
    /\ StreamThread(r, thread_of[r])
    /\ UNCHANGED <<clientVars, iteration_count, pending, llm_in, llm_calls,
                   result, plan, cap, appended, buf_owner, llm_owner, tool_replies,
                   llm_failed, globals, surface, first_in>>

NextStream ==
    \/ StreamSwitch(1, LiteTexts(1), ThreadChoices(1)) /\ UNCHANGED <<backendVars, pureVars, auxVars>>
    \/ StreamAfterSystem(1) /\ UNCHANGED <<backendVars, pureVars, auxVars>>
    \/ ChatStream(1, LiteTexts(1), ThreadChoices(1)) /\ UNCHANGED <<backendVars, pureVars, auxVars>>
    \/ StreamAfterCreated(1) /\ UNCHANGED <<backendVars, pureVars, auxVars>>
    \/ StreamContext(1) /\ UNCHANGED <<backendVars, pureVars, auxVars>>
    \/ StreamQuery(1) /\ UNCHANGED <<backendVars, pureVars, auxVars>>
    \/ LiteLoop(1) /\ UNCHANGED <<backendVars, pureVars, auxVars>>

SpecStream == InitLite /\ [][NextStream]_vars

TerminalFrames == {"done", "error"}

WsSendFails(r) ==
    /\ pc[r] = "w_user"
    /\ pc' = [pc EXCEPT ![r] = "done"]
    /\ outcome' = [outcome EXCEPT ![r] = "disconnected"]
    /\ UNCHANGED <<clientVars, query, iteration_count, pending, llm_in, llm_calls,
                   result, plan, cap, appended, buf_owner, llm_owner, tool_replies,
                   llm_failed, globals, threads, surface, thread_of, events, first_in>>

\* the generator is closed while suspended at the user_message or thinking
\* yield: GeneratorExit is no Exception, the except clause does not run and
\* no statement after the yield does
StreamClosed(r) ==
    /\ pc[r] \in {"s_user", "s_thinking"}
    /\ pc' = [pc EXCEPT ![r] = "done"]
    /\ outcome' = [outcome EXCEPT ![r] = "closed"]
    /\ UNCHANGED <<clientVars, query, iteration_count, pending, llm_in, llm_calls,
                   result, plan, cap, appended, buf_owner, llm_owner, tool_replies,
                   llm_failed, globals, threads, surface, thread_of, events, first_in>>

NextSurface ==
    \/ NextLite
    \/ WsSendFails(1) /\ UNCHANGED <<backendVars, pureVars, auxVars>>
    \/ StreamClosed(1) /\ UNCHANGED <<backendVars, pureVars, auxVars>>

SpecSurface == InitLite /\ [][NextSurface]_vars

\* C28: on every chat surface, once a request has completed, each user turn
\* it stored in its thread is followed in that thread by an assistant turn
\* (the reply, or an error text when processing failed).
C28_UserTurnAnswered ==
    \A r \in Requests :
        (pc[r] = "done" /\ surface[r] # "none" /\ thread_of[r] # NoThread) =>
            LET ms == threads[thread_of[r]].messages IN
            \A i \in 1..Len(ms) :
                (ms[i].role = "user" /\ ms[i].content = query[r]) =>
                    \E j \in (i + 1)..Len(ms) : ms[j].role = "assistant"

(***************************************************************************)
(* Registration as the two transactions it is (register of backend/app.py: *)
(* the user row is committed, then the preferences row), with two requests *)
(* in flight.  A user's id is the position of its row.                     *)
(***************************************************************************)
NoUser == 0

RegRequest(step, username, email, uid, code) ==
    [pc |-> step, username |-> username, email |-> email, uid |-> uid,
     status |-> code]

RegOthers == <<clientVars, callVars, liteVars, crudVars, pureVars, indexVars,
               lifeVars, configVars, connVars, raceVars, bootVars, backupVars, providerVars, storeVars>>

\* register from its first statement to the end of the existence check
register_reads(r, username, email) ==
    LET found == ExistingUsers(username, email) IN
    /\ reg[r].pc = "idle"
    /\ reg' = [reg EXCEPT ![r] =
                 IF Cardinality(found) > 1
                 THEN RegRequest("done", username, email, NoUser, 500)
                 ELSE IF found # {}
                 THEN RegRequest("done", username, email, NoUser, 400)
                 ELSE RegRequest("user", username, email, NoUser, 0)]
    /\ UNCHANGED <<authVars, db_preferences>>

\* db.add(user); await db.commit(); await db.refresh(user).  The unique
\* constraints on username and email reject the row when a registration
\* committed the same value since the check: rollback and 500.
register_commits_user(r) ==
    /\ reg[r].pc = "user"
    /\ IF ExistingUsers(reg[r].username, reg[r].email) # {}
       THEN /\ reg' = [reg EXCEPT ![r].pc = "done", ![r].status = 500]
            /\ UNCHANGED db_users
       ELSE /\ Len(db_users) < MaxUsers
            /\ db_users' = Append(db_users, [username |-> reg[r].username,
                                             email |-> reg[r].email,
                                             is_active |-> TRUE])
            /\ reg' = [reg EXCEPT ![r].pc = "preferences",
                                  ![r].uid = Len(db_users) + 1]
    /\ UNCHANGED <<now, ticks, db_sessions, issued, auth_req, auth_resp,
                   db_preferences>>

\* db.add(preferences); await db.commit(); return UserResponse
register_commits_preferences(r) ==
    /\ reg[r].pc = "preferences"
    /\ db_preferences' = Append(db_preferences, reg[r].uid)
    /\ reg' = [reg EXCEPT ![r].pc = "done", ![r].status = 200]
    /\ UNCHANGED authVars

\* the second commit raises (the database connection is lost): except
\* Exception, await db.rollback() of a transaction that holds only the
\* preferences row, HTTP 500
register_commit_raises(r) ==
    /\ reg[r].pc = "preferences"
    /\ reg' = [reg EXCEPT ![r].pc = "done", ![r].status = 500]
    /\ UNCHANGED <<authVars, db_preferences>>

\* the response is sent, the client may register again
register_returns(r) ==
    /\ reg[r].pc = "done"
    /\ reg' = [reg EXCEPT ![r] = [pc |-> "idle"]]
    /\ UNCHANGED <<authVars, db_preferences>>

InitSignup ==
    /\ ProgramIdle
    /\ PureIdle

NextSignup ==
    \/ \E r \in Requests, username \in Usernames, email \in Emails : register_reads(r, username, email) /\ UNCHANGED RegOthers
    \/ \E r \in Requests : register_commits_user(r) /\ UNCHANGED RegOthers
    \/ \E r \in Requests : register_commits_preferences(r) /\ UNCHANGED RegOthers
    \/ \E r \in Requests : register_commit_raises(r) /\ UNCHANGED RegOthers
    \/ \E r \in Requests : register_returns(r) /\ UNCHANGED RegOthers

SpecSignup == InitSignup /\ [][NextSignup]_vars

PreferencesOf(uid) == {j \in 1..Len(db_preferences) : db_preferences[j] = uid}

\* C29: in a database state reached when a registration request has
\* completed, with success or with an error, every user row has exactly one
\* preferences row.
C29_OnePreferencesPerUser ==
    (\E r \in Requests : reg[r].pc = "done") =>
        \A uid \in 1..Len(db_users) : Cardinality(PreferencesOf(uid)) = 1

(***************************************************************************)
(* Startup of the backend over a database that holds session rows of       *)
(* earlier runs (lifespan of backend/app.py up to its yield), then the     *)
(* authentication endpoints.                                               *)
(***************************************************************************)
\* select(UserSession).where(UserSession.expires_at < now): the rows
\* cleanup_expired_sessions would delete at time t
ExpiredSessions(t) == {i \in 1..Len(db_sessions) : db_sessions[i].expires_at < t}

\* lifespan, startup part: the tool server is reached or not; the inner
\* function cleanup_sessions is defined and never called, so
\* cleanup_expired_sessions does not run and no session row is touched
startup(reached) ==
    /\ ~booted
    /\ booted' = TRUE
    /\ startup_connected' = reached
    /\ UNCHANGED <<sweeps, authVars, next_id, db_threads, db_mcp, db_llm, req, resp>>

\* the clock at startup: the stored session is fresh, or it expired a
\* minute ago
InitBoot ==
    /\ messages = <<>>
    /\ session = "open"
    /\ tool_session_map = {"t1"}
    /\ query = [r \in Requests |-> Text("text", 1, 0)]
    /\ plan = [r \in Requests |-> <<>>]
    /\ cap = [r \in Requests |-> 0]
    /\ CallsIdle
    /\ LiteIdle
    /\ CrudIdle
    /\ PureIdle
    /\ AuxIdle
    /\ now \in {0, ACCESS_TOKEN_EXPIRE_MINUTES + 1}
    /\ ticks = 0
    /\ db_users = [u \in Users |-> [is_active |-> TRUE]]
    /\ db_sessions = <<create_user_session(2, create_access_token(2, 0), 0)>>
    /\ issued = {create_access_token(2, 0), create_refresh_token(2, 0)}
    /\ auth_req = [op |-> "none"]
    /\ auth_resp = [status |-> 0, detail |-> "none", ran |-> FALSE]

NextBoot ==
    \/ \E reached \in BOOLEAN : startup(reached) /\ UNCHANGED <<clientVars, callVars, liteVars, pureVars, indexVars, lifeVars, configVars, connVars, raceVars, regVars, backupVars, providerVars, storeVars>>
    \/ booted /\ NextAuth

SpecBoot == InitBoot /\ [][NextBoot]_vars

\* C30: the startup sequence runs the expired-session sweep exactly once, so
\* that at the moment startup completes no session row is left whose expiry
\* has passed.
C30_StartupSweepsOnce ==
    [][(~booted /\ booted') =>
         /\ sweeps' = 1
         /\ (ExpiredSessions(now))' = {}]_vars

(***************************************************************************)
(* Claims about the backend, fourth group                                  *)
(***************************************************************************)
\* the refresh token of a login, presented while it is valid by a user who
\* is still active
RefreshTokenPresented(q) ==
    /\ q.op = "refresh"
    /\ q.token \in issued
    /\ q.token.type = "refresh"
    /\ q.token.exp > now
    /\ ActiveUser(q.token.sub)

\* C31: the refresh endpoint called with the refresh token issued at login
\* answers with a new access token and a new refresh token for the same
\* user and records a new session row for the new access token.
C31_RefreshTokenRefreshes ==
    [][RefreshTokenPresented(auth_req') =>
         LET sub == auth_req'.token.sub IN
         /\ auth_resp'.status = 200
         /\ {create_access_token(sub, now), create_refresh_token(sub, now)}
               \subseteq issued'
         /\ db_sessions' = Append(db_sessions,
               create_user_session(sub, create_access_token(sub, now), now))]_vars

(***************************************************************************)
(* Backups of the configuration store (config_manager.py: delete, list,    *)
(* backup_configs, restore_backup).  A backup is kept under the second it  *)
(* was made in: its id is "backup_" followed by int(time.time()).          *)
(***************************************************************************)
MaxSeconds == 1

\* get_mcp_config as a value: the configuration, or None
mcp_config_read(hash, server_id) ==
    IF server_id \notin DOMAIN hash THEN PyNone
    ELSE LET config == config_loads(hash[server_id]) IN
         IF "headers" \notin DOMAIN config THEN config
         ELSE IF map_headers(config.headers) = "AttributeError" THEN PyNone
         ELSE [config EXCEPT !.headers =
                  mapped_headers(config.headers, "_decrypt")]

\* list_mcp_servers: every server whose configuration can be read
list_mcp_servers(hash) ==
    LET ids == {i \in DOMAIN hash : mcp_config_read(hash, i) # PyNone}
    IN  [i \in ids |-> mcp_config_read(hash, i)]

\* get_llm_config as a value
llm_config_read(key) ==
    IF key = JNull THEN PyNone
    ELSE LET config == config_loads(key) IN
         IF "apiKey" \in DOMAIN config
         THEN [config EXCEPT !.apiKey = _decrypt(config.apiKey)]
         ELSE config

\* the hash after save_mcp_config(server_id, config), unchanged when the
\* header comprehension raises
mcp_hash_after_save(hash, server_id, config) ==
    IF /\ "headers" \in DOMAIN config
       /\ map_headers(config.headers) = "AttributeError"
    THEN hash
    ELSE hset(hash, server_id,
              config_dumps(IF "headers" \in DOMAIN config
                           THEN [config EXCEPT !.headers =
                                    mapped_headers(config.headers, "_encrypt")]
                           ELSE config))

\* the key after save_llm_config(config)
llm_key_after_save(config) ==
    config_dumps(IF "apiKey" \in DOMAIN config
                 THEN [config EXCEPT !.apiKey = _encrypt(config.apiKey)]
                 ELSE config)

hdel(hash, field) == [f \in DOMAIN hash \ {field} |-> hash[f]]

\* what the two read calls of the store return
StoreView(hash, key) ==
    [mcp_servers |-> list_mcp_servers(hash), llm_config |-> llm_config_read(key)]

\* json.dumps(backup) / json.loads(backup_data)
backup_dumps(backup) ==
    JObject([mcp_servers |->
                JObject([i \in DOMAIN backup.mcp_servers |->
                            config_dumps(backup.mcp_servers[i])]),
             llm_config |->
                IF backup.llm_config = PyNone THEN JNull
                ELSE config_dumps(backup.llm_config),
             timestamp |-> JString(backup.timestamp)])

backup_loads(obj) ==
    [mcp_servers |->
        [i \in DOMAIN obj.members.mcp_servers.members |->
            config_loads(obj.members.mcp_servers.members[i])],
     llm_config |->
        IF obj.members.llm_config = JNull THEN PyNone
        ELSE config_loads(obj.members.llm_config),
     timestamp |-> obj.members.timestamp.s]

\* for server_id, config in backup["mcp_servers"].items():
\*     self.save_mcp_config(server_id, config)
RECURSIVE save_each(_, _, _)
save_each(hash, servers, ids) ==
    IF ids = {} THEN hash
    ELSE LET i == CHOOSE x \in ids : TRUE
         IN  save_each(mcp_hash_after_save(hash, i, servers[i]), servers,
                       ids \ {i})

BackupOthers == <<clientVars, callVars, liteVars, backendVars, indexVars,
                  lifeVars, connVars, raceVars, regVars, bootVars, providerVars, storeVars>>

delete_mcp_config(server_id) ==
    /\ hash_mcp_servers' = hdel(hash_mcp_servers, server_id)
    /\ Call("delete_mcp_config", <<server_id>>, PyBool(TRUE))
    /\ UNCHANGED <<key_llm_config, backupVars>>

\* the snapshot holds what list_mcp_servers and get_llm_config return
backup_configs ==
    LET backup == [mcp_servers |-> list_mcp_servers(hash_mcp_servers),
                   llm_config |-> llm_config_read(key_llm_config),
                   timestamp |-> <<"isoformat", unix_time>>]
    IN  /\ config_backups' = hset(config_backups, unix_time, backup_dumps(backup))
        /\ cache_at_backup' = hset(cache_at_backup, unix_time,
                                   StoreView(hash_mcp_servers, key_llm_config))
        /\ Call("backup_configs", <<>>, PyStr(<<"backup_", unix_time>>))
        /\ UNCHANGED <<configVars, unix_time>>

restore_backup(t) ==
    IF t \notin DOMAIN config_backups
    THEN /\ Call("restore_backup", <<t>>, PyBool(FALSE))
         /\ UNCHANGED <<configVars, backupVars>>
    ELSE LET backup == backup_loads(config_backups[t]) IN
         /\ hash_mcp_servers' = save_each(hash_mcp_servers, backup.mcp_servers,
                                          DOMAIN backup.mcp_servers)
         /\ key_llm_config' = IF backup.llm_config # PyNone
                              THEN llm_key_after_save(backup.llm_config)
                              ELSE key_llm_config
         /\ Call("restore_backup", <<t>>, PyBool(TRUE))
         /\ UNCHANGED backupVars

\* a second passes
ClockSecond ==
    /\ unix_time < MaxSeconds
    /\ unix_time' = unix_time + 1
    /\ UNCHANGED <<configVars, config_backups, cache_at_backup, pureVars>>

\* the configurations the callers save: a tool server without headers or
\* with a credential header, a model configuration with or without a key
BackupMcpConfigs ==
    {[url |-> <<"http://a/sse">>],
     [url |-> <<"http://a/sse">>, headers |-> [h \in {"Authorization"} |-> <<"v">>]]}

BackupLlmConfigs ==
    {[provider |-> <<"openai">>], [provider |-> <<"openai">>, apiKey |-> <<"sk-1">>]}

NextBackup ==
    \/ \E server_id \in ServerIds, config \in BackupMcpConfigs : save_mcp_config(server_id, config) /\ UNCHANGED <<BackupOthers, backupVars>>
    \/ \E server_id \in ServerIds : delete_mcp_config(server_id) /\ UNCHANGED BackupOthers
    \/ \E config \in BackupLlmConfigs : save_llm_config(config) /\ UNCHANGED <<BackupOthers, backupVars>>
    \/ backup_configs /\ UNCHANGED BackupOthers
    \/ \E t \in 0..MaxSeconds : restore_backup(t) /\ UNCHANGED BackupOthers
    \/ ClockSecond /\ UNCHANGED BackupOthers

SpecBackup == InitConfig /\ [][NextBackup]_vars

\* the secrets the callers hand to the store
ClearSecrets == {<<"sk-1">>, <<"v">>}

SecretsOfConfig(obj) ==
    {obj.members[k].s : k \in DOMAIN obj.members \cap {"apiKey"}}
    \cup (IF "headers" \in DOMAIN obj.members
          THEN {obj.members.headers.members[h].s :
                  h \in DOMAIN obj.members.headers.members \cap {"Authorization"}}
          ELSE {})

\* C32: no record the configuration manager wrote to the cache (an entry of
\* the mcp_servers hash, llm_config, a config_backup_* snapshot) holds the
\* model API key or the value of a credential-named header in clear text.
C32_NoClearSecretAtRest ==
    /\ \A i \in DOMAIN hash_mcp_servers :
          SecretsOfConfig(hash_mcp_servers[i]) \cap ClearSecrets = {}
    /\ key_llm_config # JNull =>
          SecretsOfConfig(key_llm_config) \cap ClearSecrets = {}
    /\ \A t \in DOMAIN config_backups :
          LET b == config_backups[t].members IN
          /\ \A i \in DOMAIN b.mcp_servers.members :
                SecretsOfConfig(b.mcp_servers.members[i]) \cap ClearSecrets = {}
          /\ b.llm_config # JNull =>
                SecretsOfConfig(b.llm_config) \cap ClearSecrets = {}

\* C33: a restore_backup(b) that succeeds leaves the store returning exactly
\* the tool-server configurations and the model configuration it returned
\* when backup b was made.
C33_RestoreBringsBack ==
    [][(call_op' = "restore_backup" /\ call_ret' = <<PyBool(TRUE)>>) =>
          StoreView(hash_mcp_servers, key_llm_config)' =
              cache_at_backup[call_arg'[1]]]_vars

(***************************************************************************)
(* The model provider of an MCPClient (backend mcp_client.py:              *)
(* _load_llm_config at construction, _call_llm at every provider call).    *)
(* An environment says which settings are present and non-empty, and       *)
(* whether the google-generativeai package can be imported.                *)
(***************************************************************************)
EnvNames == {"GOOGLE_API_KEY", "LLM_API_KEY", "AZURE_ENDPOINT", "generativeai"}

Environments == [EnvNames -> BOOLEAN]

Providers == {"google", "azure", "openai", "anthropic"}

ValueError(detail) == [made |-> "ValueError", detail |-> detail]

Constructed(llm_provider, client, env) ==
    [made |-> "yes", provider |-> llm_provider, llm_client |-> client,
     google_api_key |-> env["GOOGLE_API_KEY"]]

\* self.google_api_key is read from the environment whatever the provider
_load_llm_config(llm_provider, env) ==
    IF llm_provider = "google" THEN
        IF ~env["GOOGLE_API_KEY"] THEN ValueError("GOOGLE_API_KEY is required")
        ELSE IF ~env["generativeai"]
        THEN ValueError("google-generativeai package is required")
        ELSE Constructed(llm_provider, "GenerativeModel", env)
    ELSE IF llm_provider = "azure" THEN
        IF ~env["LLM_API_KEY"] THEN ValueError("LLM_API_KEY is required")
        ELSE IF ~env["AZURE_ENDPOINT"] THEN ValueError("AZURE_ENDPOINT is required")
        ELSE Constructed(llm_provider, "AzureOpenAI", env)
    ELSE IF llm_provider = "openai" THEN
        IF ~env["LLM_API_KEY"] THEN ValueError("LLM_API_KEY is required")
        ELSE Constructed(llm_provider, "OpenAI", env)
    ELSE ValueError("Unsupported LLM provider")

\* the branch of _call_llm: `if hasattr(self, 'google_api_key') and
\* self.google_api_key` looks at the key, not at the provider
TakesGooglePath(client) == client.google_api_key

\* the call _call_llm issues for a catalog and a buffer with or without
\* turns; the Google reply never carries tool calls
_call_llm(client, env, catalog, turns) ==
    IF TakesGooglePath(client) THEN
        IF ~env["generativeai"]
        THEN [path |-> "raised", error |-> "ModuleNotFoundError"]
        ELSE [path |-> "google", sent |-> turns, tool_calls |-> "None"]
    ELSE [path |-> "openai", sent |-> turns,
          tools |-> IF catalog # <<>> THEN catalog ELSE <<"None">>,
          tool_choice |-> IF catalog # <<>> THEN "auto" ELSE "none"]

ProviderOthers == <<clientVars, callVars, liteVars, backendVars, pureVars,
                    indexVars, lifeVars, configVars, connVars, raceVars,
                    regVars, bootVars, backupVars, storeVars>>

\* MCPClient(llm_provider=...)
MCPClient_init(llm_provider, env) ==
    /\ llm_client.made = "no"
    /\ environ' = env
    /\ llm_client' = _load_llm_config(llm_provider, env)
    /\ UNCHANGED llm_call

\* await self._call_llm(catalog)
call_llm(catalog, turns) ==
    /\ llm_client.made = "yes"
    /\ llm_call' = _call_llm(llm_client, environ, catalog, turns)
    /\ UNCHANGED <<environ, llm_client>>

Catalogs == {<<>>, <<"t1">>, <<"t1", "t2">>}

NextProvider ==
    \/ \E llm_provider \in Providers, env \in Environments : MCPClient_init(llm_provider, env) /\ UNCHANGED ProviderOthers
    \/ \E catalog \in Catalogs, turns \in BOOLEAN : call_llm(catalog, turns) /\ UNCHANGED ProviderOthers

SpecProvider == InitConfig /\ [][NextProvider]_vars

\* C34: the shape of every provider call follows the provider chosen at
\* construction: a client made for azure or openai issues the OpenAI-style
\* call, with the tool catalog when there is one, and only a client made
\* for google takes the Google path.
C34_CallShapeFollowsProvider ==
    llm_call.path # "none" =>
        /\ llm_client.provider \in {"azure", "openai"} =>
              /\ llm_call.path = "openai"
              /\ llm_call.tool_choice = "auto" => llm_call.tools # <<"None">>
        /\ llm_call.path = "google" => llm_client.provider = "google"

(***************************************************************************)
(* The thread store in its two modes (session_manager.py): the same        *)
(* create, delete and list calls are made on a store with a reachable      *)
(* cache and on one that fell back to self._memory_store.  Thread ids and  *)
(* creation times are the creation counter in both.                        *)
(***************************************************************************)
MaxStoreThreads == 2

Owners == {"default", "u2"}

\* lrange(key, 0, -1): a missing key is the empty list
lrange(lists, key) == IF key \in DOMAIN lists THEN lists[key] ELSE <<>>

\* delete(key), then lpush(key, *values) when there are values
replaced_list(lists, key, values) ==
    IF values = <<>> THEN hdel(lists, key)
    ELSE hset(lists, key, lpush(<<>>, values))

\* the fallback of get_user_threads: every thread of self._memory_store,
\* whoever it was created for
memory_user_threads(user_id) == memory_store

StoreOthers == <<clientVars, callVars, liteVars, backendVars, pureVars,
                 indexVars, lifeVars, configVars, connVars, raceVars, regVars,
                 bootVars, backupVars, providerVars>>

\* create_thread(title, user_id): _save_thread, then _add_thread_to_user,
\* which does nothing without a cache
store_create_thread(user_id, title) ==
    LET thread_id == store_count + 1
        info == Summary(thread_id, title, thread_id)
    IN  /\ store_count < MaxStoreThreads
        /\ store_count' = thread_id
        /\ redis_threads' = redis_threads \cup {thread_id}
        /\ redis_user_threads' =
             hset(redis_user_threads, user_id,
                  ltrim(lpush(lrange(redis_user_threads, user_id), <<info>>),
                        IndexCap - 1))
        /\ memory_store' = Append(memory_store, info)
        /\ created_for' = hset(created_for, thread_id, user_id)
        /\ UNCHANGED listing

\* delete_thread(thread_id, user_id)
store_delete_thread(thread_id, user_id) ==
    /\ redis_threads' = redis_threads \ {thread_id}
    /\ redis_user_threads' =
         replaced_list(redis_user_threads, user_id,
                       KeepOthers(lrange(redis_user_threads, user_id), thread_id))
    /\ memory_store' = KeepOthers(memory_store, thread_id)
    /\ UNCHANGED <<store_count, created_for, listing>>

\* get_user_threads(user_id) on both stores
store_get_user_threads(user_id) ==
    /\ listing' = [user_id |-> user_id,
                   redis |-> lrange(redis_user_threads, user_id),
                   memory |-> memory_user_threads(user_id)]
    /\ UNCHANGED <<redis_threads, redis_user_threads, memory_store,
                   store_count, created_for>>

NextStore ==
    \/ \E user_id \in Owners, title \in NewTitles : store_create_thread(user_id, title) /\ UNCHANGED StoreOthers
    \/ \E thread_id \in 1..MaxStoreThreads, user_id \in Owners : store_delete_thread(thread_id, user_id) /\ UNCHANGED StoreOthers
    \/ \E user_id \in Owners : store_get_user_threads(user_id) /\ UNCHANGED StoreOthers

SpecStore == InitConfig /\ [][NextStore]_vars

ListedIds(list) == {list[i].thread_id : i \in 1..Len(list)}

\* C35: get_user_threads(owner) returns only summaries of threads created
\* for that owner in both modes, and the fallback store lists the same
\* threads as the cache-backed store after the same calls.
C35_OwnerScopedInBothStores ==
    listing.user_id # "none" =>
        /\ \A t \in ListedIds(listing.redis) : created_for[t] = listing.user_id
        /\ \A t \in ListedIds(listing.memory) : created_for[t] = listing.user_id
        /\ ListedIds(listing.memory) = ListedIds(listing.redis)


\* ------------------------------------------------- the iteration notice
\* The last reply of the provider carried tool calls exactly when the replies
\* with tool calls outnumber the rounds of the loop that executed them.
LastReplyRequestedTools(r) == tool_replies[r] > iteration_count[r]

\* C36: the text process_user_query returns carries the maximum-iterations
\* notice only if the last provider reply still requested tool calls; a run
\* the provider ended itself with a reply without tool calls never has it.
C36_NoticeOnlyWhenCutShort ==
    (pc[1] = "done" /\ result[1] = "reply+note") => LastReplyRequestedTools(1)

\* ------------------------------------------- the new user turn, once, last
\* the positions of transcript t that hold the user message q
UserTurnPositions(t, q) ==
    { i \in 1..Len(t) : t[i].role = "user" /\ t[i].content = q }

\* C37: on every chat surface the transcript given to the first provider
\* call of a request contains the request's new user message exactly once,
\* as its last turn.
C37_NewUserTurnOnceAndLast ==
    \A r \in Requests :
        (surface[r] \in {"api", "stream", "ws"} /\ llm_calls[r] >= 1)
        => UserTurnPositions(first_in[r], query[r]) = {Len(first_in[r])}

\* ------------------------------------------------ the URL of the catalog
\* a step of the serving lightweight server that obtained no catalog: no
\* session was opened and the tool-to-session map kept its session
NoCatalogObtained ==
    /\ variant = "lite" /\ phase = "serving"
    /\ opened_sessions' = opened_sessions
    /\ map_session' = map_session

\* C38: the process-wide tool-server URL is the URL of the server the
\* current catalog and tool-to-session map were obtained from: a switch
\* attempt that fails (via /ask, /update_config or the streaming endpoint)
\* leaves the URL at its previous value, so that the same request attempts
\* the connection again.
C38_FailedSwitchKeepsUrl ==
    [][NoCatalogObtained => current_url' = current_url]_vars

\* ---------------------------------------------- one row per token hash
\* the rows of the session table that carry the hash h
RowsWithHash(h) == {i \in 1..Len(db_sessions) : db_sessions[i].token_hash = h}

\* C39: no two session rows carry the same token hash - two logins or
\* refreshes of the same user within the same clock reading create rows
\* with different hashes - so the session lookup of an authenticated
\* request never matches more than one row.
C39_TokenHashesDistinct ==
    /\ \A i \in 1..Len(db_sessions) :
            RowsWithHash(db_sessions[i].token_hash) = {i}
    /\ \A tok \in Bearers : Cardinality(MatchingSessions(tok, now)) <= 1
====
